---- MODULE Spec2Model ----
(***************************************************************************)
(* Model of the moveit_servo calculation loop (ServoCalcs) of moveit2.     *)
(*                                                                         *)
(* Units.  Time is counted in publish periods (one tick = one period).     *)
(* The publish period is T = 1/PeriodInv seconds, so a velocity v gives    *)
(* the position increment v / PeriodInv and an increment d gives the       *)
(* velocity d * PeriodInv.  All quantities are integers.  A NaN component  *)
(* of a command is the value NaN.  A null shared pointer is the empty      *)
(* sequence <<>>, a pointer to a message m is <<m>>.                       *)
(***************************************************************************)
EXTENDS Integers, Sequences, FiniteSets, TLC

\* ------------------------------------------------------------------------
\* Bounds of the model
\* ------------------------------------------------------------------------
MaxNow == 4            \* the clock stops the timer after this many ticks
MaxHaltMsgs == 1       \* num_outgoing_halt_msgs_to_publish ranges over 0..MaxHaltMsgs

\* ------------------------------------------------------------------------
\* Program constants and configuration
\* ------------------------------------------------------------------------
NumJoints == 2                       \* num_joints_
gazebo_redundant_message_count == 30
PeriodInv == 2                       \* 1 / publish_period
Timeout == 2                         \* incoming_command_timeout, in periods
LinearScale == 4                     \* scale/linear
JointScale == 4                      \* scale/joint
LowPassCoeff == 1                    \* low_pass_filter_coeff
JointLimitMargin == 1                \* joint_limit_margin
CollisionDen == 2                    \* collision_velocity_scale_ is n / CollisionDen
LowerSingularityThreshold == 2
HardStopSingularityThreshold == 4
publish_joint_positions == TRUE
publish_joint_velocities == TRUE
publish_joint_accelerations == FALSE
command_in_type == "unitless"

\* Bounds of every joint of the group, as the robot model reports them
MinPosition == -4
MaxPosition == 4
MinVelocity == -4
MaxVelocity == 4
MinAcceleration == -4
MaxAcceleration == 4

NaN == 1000
IsNaN(v) == v = NaN
Abs(v) == IF v < 0 THEN -v ELSE v

\* StatusCode
NO_WARNING == 0
DECELERATE_FOR_SINGULARITY == 1
HALT_FOR_SINGULARITY == 2
DECELERATE_FOR_COLLISION == 3
HALT_FOR_COLLISION == 4
JOINT_BOUND == 5

Joints == 1..NumJoints
Zeros(n) == [i \in 1..n |-> 0]

\* ------------------------------------------------------------------------
\* Messages
\* ------------------------------------------------------------------------
ZeroTwist == <<0, 0, 0, 0, 0, 0>>
DefaultTwistStamped == [stamp |-> 0, frame_id |-> "", twist |-> ZeroTwist]
DefaultJointJog == [stamp |-> 0, joint_names |-> <<>>, velocities |-> <<>>]
DefaultPoint == [velocities |-> <<>>, positions |-> <<>>, accelerations |-> <<>>,
                 time_from_start |-> 0]
DefaultTrajectory == [joint_names |-> <<>>, points |-> <<>>]

\* The twists, jogs and joint states the environment sends
JointStateAtRest ==
  [name |-> [i \in Joints |-> i], position |-> [i \in Joints |-> 0],
   velocity |-> [i \in Joints |-> 0]]
JointStateAtLimit ==
  [name |-> [i \in Joints |-> i], position |-> [i \in Joints |-> MaxPosition],
   velocity |-> [i \in Joints |-> 2]]
JointStateShort == [name |-> <<1>>, position |-> <<1>>, velocity |-> <<0>>]
\* Condition numbers the kinematics can report for the Jacobian
ConditionNumbers == { 1, 5 }

\* isNonZero(TwistStamped): any component differs from 0.0 (NaN != 0.0 holds)
isNonZeroTwist(msg) == \E d \in 1..6 : msg.twist[d] # 0
\* isNonZero(JointJog)
isNonZeroJog(msg) == \E m \in 1..Len(msg.velocities) : msg.velocities[m] # 0

VARIABLES
  parameters,                   \* num_outgoing_halt_msgs_to_publish, use_gazebo
  now,                          \* node_->now(), in periods
  \* state guarded by latest_state_mutex_
  incoming_joint_state, latest_twist_stamped, latest_joint_cmd,
  latest_twist_command_stamp, latest_joint_command_stamp,
  latest_nonzero_twist_stamped, latest_nonzero_joint_cmd,
  \* members of ServoCalcs
  collision_velocity_scale, kinematic_state,
  internal_joint_state, original_joint_state,
  wait_for_servo_commands, paused, stop_requested,
  zero_velocity_count,
  status, prev_joint_velocity, position_filters, last_sent_command,
  timer,                        \* "none", "armed" or "cancelled"
  pc,                           \* position of the timer callback run()
  crashed,                      \* the process dereferenced a null pointer
  \* observation of the outputs
  ret,                          \* the last start() call: its return value and
                                \* the parity of the number of calls
  \* observation of the tick in progress, cleared when run() returns
  events,                       \* what the tick published, in order
  published,                    \* the command the tick published
  branch,                       \* the branch the tick selected
  twist_command_is_stale,       \* twist_command_is_stale_ of the tick
  joint_command_is_stale,       \* joint_command_is_stale_ of the tick
  \* history
  cmd_after_stop,               \* a command went out while stop_requested_
  zero_run, run_active,         \* length of the current all-zero run of ticks
  stale_run,                    \* length of the current both-stale run of ticks
  \* the threads: the executor thread, which runs the timer callback and the
  \* subscription and service callbacks one at a time, and the thread of the
  \* caller of the public interface
  \* the dimension masks and their observation
  control_dimensions, drift_dimensions,
  tick_dimensions,              \* the masks in force when the executor last
                                \* was outside run()
  arrived,                      \* the last twist and the last jog that arrived,
                                \* and whether the last twist replaced another
                                \* one with the same stamp since the last tick
  snapshot,                     \* the commands and flags the tick copied
  tf_moveit_to_robot_cmd_frame, \* "uninitialized" (the member has no
                                \* initializer: its content is whatever the
                                \* memory held) or "computed" (a product of
                                \* two isometries, never all zeros)
  status_trace,                 \* the values of status_ in the tick: at its
                                \* start and after each step that can write it
  drift_result,                 \* the last drift removal made on its own: the
                                \* mask, delta-x and what is left of them
  halt_result,                  \* the last suddenHalt made on its own, applied
                                \* once and twice
  jog_result,                   \* the last scaleJointCommand made on its own: the
                                \* command, the indices of velocities it read
                                \* and the result
  solve_result,                 \* the last DecelerateBeforeCollision::solve
                                \* call: its inputs, the feedback and
                                \* local_solution
  joint_position_pids,          \* DecelerateBeforeCollision: the joints that
                                \* have a PID controller
  path_invalidation_event_send, \* DecelerateBeforeCollision: the feedback
                                \* flag, <<>> before initialize()
  stop_time_result,             \* the last worst-case stop time computed on
                                \* its own: the joint state, which joints have
                                \* an acceleration bound, and the value
  scaling_result,               \* the last singularity analysis made on its
                                \* own: its inputs and what it returned
  read_result,                  \* the configuration readParameters() was
                                \* given and what it returned, <<>> before
  transform_returned,           \* what the last getCommandFrameTransform()
                                \* returned, and whether a tick had computed
                                \* the transform by then
  dimensions_used,              \* the masks the Cartesian calculation of the
                                \* tick read
  latest_state_mutex,           \* the thread that holds latest_state_mutex_
  executor_at, caller_at        \* the function a thread is in and its position

sharedVars == << incoming_joint_state, latest_twist_stamped, latest_joint_cmd,
                 latest_twist_command_stamp, latest_joint_command_stamp,
                 latest_nonzero_twist_stamped, latest_nonzero_joint_cmd >>
tickVars == << events, published, branch, twist_command_is_stale,
               joint_command_is_stale >>
calcVars == << kinematic_state, zero_velocity_count, prev_joint_velocity,
               position_filters >>
obsVars == << tickVars, cmd_after_stop, zero_run, run_active, stale_run >>
threadVars == << latest_state_mutex, executor_at, caller_at >>
tfVars == << tf_moveit_to_robot_cmd_frame, transform_returned >>
dimVars == << control_dimensions, drift_dimensions, tick_dimensions >>
modelVars == << path_invalidation_event_send, joint_position_pids, solve_result,
                jog_result, halt_result, drift_result,
                parameters, now, sharedVars, collision_velocity_scale, calcVars,
                internal_joint_state, original_joint_state, wait_for_servo_commands,
                paused, stop_requested, status, last_sent_command, timer, pc,
                crashed, ret, obsVars, dimVars, dimensions_used,
                arrived, snapshot, tfVars, read_result, status_trace,
                scaling_result, stop_time_result >>
vars == << modelVars, threadVars >>

\* ------------------------------------------------------------------------
\* Helpers of ServoCalcs
\* ------------------------------------------------------------------------
\* LowPassFilter::filter with a = (coef - 1)/(coef + 1): (1 - a) x + a y
FilterValue(x, y) ==
  ((LowPassCoeff + 1) * x + (LowPassCoeff - 1) * (y - x)) \div (LowPassCoeff + 1)

\* index of the last entry of names that equals joint c, 0 when there is none
LastIndexOf(names, c) ==
  IF \E m \in 1..Len(names) : names[m] = c
  THEN CHOOSE m \in 1..Len(names) :
         names[m] = c /\ \A k \in (m+1)..Len(names) : names[k] # c
  ELSE 0

\* updateJoints: TRUE iff the message carries at least num_joints_ names
updateJointsOk(ijs) == Len(ijs[1].name) >= NumJoints

\* updateJoints: internal_joint_state_ after copying the known joints
updateJointsState(ijs, internal) ==
  IF ~updateJointsOk(ijs) THEN internal
  ELSE [internal EXCEPT !.position =
          [c \in Joints |->
             IF LastIndexOf(ijs[1].name, c) # 0
             THEN ijs[1].position[LastIndexOf(ijs[1].name, c)]
             ELSE internal.position[c]]]

\* RobotState::setVariableValues(JointState): the named joints take the
\* message's positions and velocities
setVariableValues(ks, msg) ==
  [position |-> [c \in Joints |->
                   IF LastIndexOf(msg.name, c) # 0
                   THEN msg.position[LastIndexOf(msg.name, c)]
                   ELSE ks.position[c]],
   velocity |-> [c \in Joints |->
                   IF LastIndexOf(msg.name, c) # 0
                   THEN msg.velocity[LastIndexOf(msg.name, c)]
                   ELSE ks.velocity[c]]]

\* resetLowPassFilters: every filter is reset to the joint's position
resetLowPassFilters(joint_state) == [i \in Joints |-> joint_state.position[i]]

\* the trajectory point start() and composeJointTrajMessage build
ComposePoint(joint_state, vel) ==
  [velocities |-> IF publish_joint_velocities THEN vel ELSE <<>>,
   positions |-> IF publish_joint_positions THEN joint_state.position ELSE <<>>,
   accelerations |-> IF publish_joint_accelerations THEN Zeros(NumJoints) ELSE <<>>,
   time_from_start |-> 1]

\* composeJointTrajMessage: names are set and one point is appended
composeJointTrajMessage(joint_state, traj) ==
  [joint_names |-> joint_state.name,
   points |-> Append(traj.points, ComposePoint(joint_state, joint_state.velocity))]

\* suddenHalt: only points[0] is written; an empty trajectory gets one point
suddenHalt_Push(traj, original) ==
  [traj EXCEPT !.points =
     << [DefaultPoint EXCEPT !.positions = original.position,
                             !.velocities = Zeros(NumJoints)] >> \o @]
suddenHalt_Keep(traj, original) == traj
suddenHalt(traj, original) ==
  LET pts == IF traj.points = <<>>
             THEN << [DefaultPoint EXCEPT !.positions = Zeros(NumJoints),
                                          !.velocities = Zeros(NumJoints)] >>
             ELSE traj.points
      p0 == [pts[1] EXCEPT
               !.positions = IF publish_joint_positions
                             THEN [i \in 1..Len(pts[1].positions) |->
                                     IF i \in Joints THEN original.position[i]
                                     ELSE pts[1].positions[i]]
                             ELSE @,
               !.velocities = IF publish_joint_velocities
                              THEN [i \in 1..Len(pts[1].velocities) |->
                                      IF i \in Joints THEN 0 ELSE pts[1].velocities[i]]
                              ELSE @]
  IN [traj EXCEPT !.points = [pts EXCEPT ![1] = p0]]

\* insertRedundantPointsIntoTrajectory: resize to count, then copies of
\* points[0] are written to the indices 2 .. count-1 (0-based)
insertRedundantPointsIntoTrajectory(traj, count) ==
  IF count < 2 THEN traj
  ELSE CHOOSE out \in
         { [t EXCEPT !.points =
              [k \in 1..count |->
                 IF k >= 3
                 THEN [(IF Len(t.points) >= 1 THEN t.points[1] ELSE DefaultPoint)
                         EXCEPT !.time_from_start = k - 1]
                 ELSE IF k <= Len(t.points) THEN t.points[k] ELSE DefaultPoint]]
           : t \in {traj} } : TRUE

\* the loop of the no-motion branch: "for (auto point : points)" assigns the
\* zero velocities to a copy of each point, the trajectory keeps its values
ZeroVelocitiesOfPointCopies(traj) == traj

\* ------------------------------------------------------------------------
\* Command validation and scaling
\* ------------------------------------------------------------------------
\* checkValidCommand(JointJog): no velocity is NaN
checkValidJog(cmd) == \A m \in 1..Len(cmd.velocities) : ~IsNaN(cmd.velocities[m])

\* checkValidCommand(TwistStamped): no NaN, and |component| <= 1 when unitless
checkValidTwist_AcceptAll(cmd) == TRUE
checkValidTwist(cmd) ==
  /\ \A d \in 1..6 : ~IsNaN(cmd.twist[d])
  /\ (command_in_type = "unitless") => \A d \in 1..6 : ~(Abs(cmd.twist[d]) > 1)

\* scaleCartesianCommand: the position increment over one period
scaleCartesianCommand(cmd) ==
  [d \in 1..6 |->
     IF command_in_type = "unitless"
     THEN (LinearScale * cmd.twist[d]) \div PeriodInv
     ELSE IF command_in_type = "speed_units" THEN cmd.twist[d] \div PeriodInv
     ELSE 0]

\* scaleJointCommand: zero for the joints the command does not name
scaleJointCommand(cmd) ==
  [c \in Joints |->
     LET m == LastIndexOf(cmd.joint_names, c)
     IN IF m = 0 THEN 0
        ELSE IF command_in_type = "unitless"
             THEN (cmd.velocities[m] * JointScale) \div PeriodInv
             ELSE IF command_in_type = "speed_units"
                  THEN cmd.velocities[m] \div PeriodInv
                  ELSE 0]

\* enforceControlDimensions: the uncontrolled components are set to zero
enforceControlDimensions(control, cmd) ==
  [cmd EXCEPT !.twist = [d \in 1..6 |-> IF control[d] THEN cmd.twist[d] ELSE 0]]

\* removeDriftDimensions, working backwards through the six rows: row
\* dimension is removed when it drifts and more than one row is left.  rows
\* is the list of the dimensions whose rows are left
RECURSIVE RemoveDriftFrom(_, _, _)
RemoveDriftFrom(rows, dimension, drift) ==
  IF dimension = 0 THEN rows
  ELSE IF drift[dimension] /\ Len(rows) > 1
       THEN RemoveDriftFrom([k \in 1..(Len(rows) - 1) |->
                               IF k < dimension THEN rows[k] ELSE rows[k + 1]],
                            dimension - 1, drift)
       ELSE RemoveDriftFrom(rows, dimension - 1, drift)

KeptRows(drift) == RemoveDriftFrom([d \in 1..6 |-> d], 6, drift)

\* the increment the reduced Jacobian maps to the joints: the elements of the
\* rows that are left, zero for a removed row
removeDriftDimensions(drift, delta_x) ==
  [d \in 1..6 |->
     IF \E k \in 1..Len(KeptRows(drift)) : KeptRows(drift)[k] = d
     THEN delta_x[d] ELSE 0]

\* The Jacobian of the group is that of a gantry: joint i moves dimension i
\* only, so the pseudoinverse maps the increment of dimension i to joint i
PseudoInverseTimes(delta_x) == [c \in Joints |-> delta_x[c]]

\* velocityScalingFactorForSingularity, as numerator over
\* (hard_stop_singularity_threshold - lower_singularity_threshold).
\* ini_condition and new_condition are the condition numbers of the Jacobian
\* before and after the probe step, dot_u the dot product of the last column
\* of U and the command before the sign of that column is resolved
SingularityDen == HardStopSingularityThreshold - LowerSingularityThreshold
\* "if (ini_condition >= new_condition) vector_toward_singularity *= -1"
flipsDirection_Strict(ini_condition, new_condition) == ini_condition > new_condition
flipsDirection(ini_condition, new_condition) == ini_condition >= new_condition

velocityScalingFactorForSingularity(ini_condition, new_condition, dot_u) ==
  LET dot == IF flipsDirection(ini_condition, new_condition) THEN -dot_u ELSE dot_u
  IN IF dot > 0 /\ ini_condition > LowerSingularityThreshold
                /\ ini_condition < HardStopSingularityThreshold
     THEN [status |-> DECELERATE_FOR_SINGULARITY,
           scale |-> HardStopSingularityThreshold - ini_condition, raised |-> TRUE]
     ELSE IF dot > 0 /\ ini_condition > HardStopSingularityThreshold
          THEN [status |-> HALT_FOR_SINGULARITY, scale |-> 0, raised |-> TRUE]
          ELSE [status |-> NO_WARNING, scale |-> SingularityDen, raised |-> FALSE]

\* the probe step of velocityScalingFactorForSingularity writes the probed
\* joint positions into kinematic_state_
ProbeSteps == { [c \in Joints |-> 0], [c \in Joints |-> IF c = 1 THEN 1 ELSE 0] }
setJointGroupPositions(ks, probe) ==
  [ks EXCEPT !.position = [c \in Joints |-> ks.position[c] + probe[c]]]

\* ------------------------------------------------------------------------
\* Limits
\* ------------------------------------------------------------------------
\* enforceSingleVelAccelLimit for one joint: the clipped increment.
\* relative_change = x / delta and "fabs(relative_change) < 1" is
\* delta # 0 /\ |x| < |delta| (a division by zero gives inf or NaN)
AccelClipped(prev_vel, delta) ==
  LET accel == (delta * PeriodInv - prev_vel) * PeriodInv
      clip == accel < MinAcceleration \/ accel > MaxAcceleration
      acceleration_limit == IF accel < MinAcceleration THEN MinAcceleration
                            ELSE MaxAcceleration
      target == (acceleration_limit + prev_vel * PeriodInv) \div (PeriodInv * PeriodInv)
  IN IF clip /\ delta # 0 /\ Abs(target) < Abs(delta) THEN target ELSE delta

VelClipped(delta) ==
  LET vel == delta * PeriodInv
      clip == vel < MinVelocity \/ vel > MaxVelocity
      velocity_limit == IF vel < MinVelocity THEN MinVelocity ELSE MaxVelocity
      target == velocity_limit \div PeriodInv
  IN IF clip /\ delta # 0 /\ Abs(target) < Abs(delta) THEN target ELSE delta

enforceSingleVelAccelLimit(prev_vel, delta) == VelClipped(AccelClipped(prev_vel, delta))

\* enforceSRDFAccelVelLimits over the joints of the group
enforceSRDFAccelVelLimits(delta_theta, prev) ==
  [i \in Joints |-> enforceSingleVelAccelLimit(prev[i], delta_theta[i])]

\* RobotState::satisfiesPositionBounds(joint, margin)
satisfiesPositionBounds(ks, i, margin) ==
  ~(ks.position[i] < MinPosition - margin \/ ks.position[i] > MaxPosition + margin)

\* enforceSRDFPositionLimits: FALSE when some joint is past its margin and its
\* measured velocity points further out
enforceSRDFPositionLimits(ks, original) ==
  ~ \E i \in Joints :
      /\ ~satisfiesPositionBounds(ks, i, -JointLimitMargin)
      /\ \/ ks.velocity[i] < 0 /\ original.position[i] < MinPosition + JointLimitMargin
         \/ ks.velocity[i] > 0 /\ original.position[i] > MaxPosition - JointLimitMargin

\* ------------------------------------------------------------------------
\* internalServoUpdate and the two servo calculations.  st is the part of
\* the object the calculation reads and writes:
\*   status, prev_joint_velocity, position_filters, internal_joint_state,
\*   updated_filters, kinematic_state
\* The result carries ok (the return value), traj and the new st.
\* ------------------------------------------------------------------------
\* applyJointUpdate: integrate, filter, velocity, previous velocity
applyJointUpdateOk(delta_theta, joint_state, previous_vel) ==
  /\ Len(joint_state.position) = Len(delta_theta)
  /\ Len(joint_state.velocity) = Len(joint_state.position)
  /\ Len(previous_vel) = Len(joint_state.position)

\* the status after the collision scaling: written for a scale in (0, 1) and
\* for 0, left alone otherwise
collisionStatus_Clear(current, collision_scale) ==
  IF collision_scale > 0 /\ collision_scale < CollisionDen
  THEN DECELERATE_FOR_COLLISION
  ELSE IF collision_scale = 0 THEN HALT_FOR_COLLISION ELSE NO_WARNING
collisionStatus(current, collision_scale) ==
  IF collision_scale > 0 /\ collision_scale < CollisionDen
  THEN DECELERATE_FOR_COLLISION
  ELSE IF collision_scale = 0 THEN HALT_FOR_COLLISION ELSE current

internalServoUpdate(delta_in, traj, st, original, use_gazebo, collision_scale) ==
  LET limited == enforceSRDFAccelVelLimits(delta_in, st.prev_joint_velocity)
      status1 == collisionStatus(st.status, collision_scale)
      delta_theta == [i \in Joints |-> (limited[i] * collision_scale) \div CollisionDen]
      ok == applyJointUpdateOk(delta_theta, original, st.prev_joint_velocity)
      filters == [i \in Joints |->
                    FilterValue(original.position[i] + delta_theta[i],
                                st.position_filters[i])]
      velocity == [i \in Joints |-> delta_theta[i] * PeriodInv]
      internal == [original EXCEPT !.position = filters, !.velocity = velocity]
      composed == composeJointTrajMessage(internal, traj)
      halting == ~enforceSRDFPositionLimits(st.kinematic_state, original)
      halted == IF halting THEN suddenHalt(composed, original) ELSE composed
      final == IF use_gazebo
               THEN insertRedundantPointsIntoTrajectory(halted,
                                                        gazebo_redundant_message_count)
               ELSE halted
  IN IF ~ok
     THEN [traj |-> traj, st |-> [st EXCEPT !.status = status1,
                             !.status_trace = Append(@, status1),
                             !.internal_joint_state = original],
           ok |-> FALSE]
     ELSE [traj |-> final, st |-> [st EXCEPT
                     !.status = IF halting THEN JOINT_BOUND ELSE status1,
                     !.status_trace =
                        @ \o << status1, IF halting THEN JOINT_BOUND ELSE status1 >>,
                     !.prev_joint_velocity = IF halting THEN Zeros(NumJoints)
                                             ELSE velocity,
                     !.position_filters = filters,
                     !.internal_joint_state = internal,
                     !.updated_filters = TRUE],
           ok |-> TRUE]

\* jointServoCalcs
jointServoCalcs(cmd, traj, st, original, use_gazebo, collision_scale) ==
  IF ~checkValidJog(cmd)
  THEN [traj |-> traj, st |-> st, ok |-> FALSE]
  ELSE internalServoUpdate(scaleJointCommand(cmd), traj, st, original, use_gazebo,
                           collision_scale)

\* cartesianServoCalcs; kin is what the kinematics report in this tick:
\* ini_condition, new_condition, dot_u and the probe step.  All six dimensions
\* and the command frame is the planning frame
cartesianServoCalcs(cmd, traj, st, original, use_gazebo, collision_scale, kin) ==
  IF ~checkValidTwist(cmd)
  THEN [traj |-> traj, st |-> st, ok |-> FALSE]
  ELSE LET controlled == enforceControlDimensions(st.control_dimensions, cmd)
           delta_x == removeDriftDimensions(st.drift_dimensions,
                                            scaleCartesianCommand(controlled))
           sing == velocityScalingFactorForSingularity(kin.ini_condition,
                                                       kin.new_condition, kin.dot_u)
           delta_theta == [c \in Joints |->
                             (PseudoInverseTimes(delta_x)[c] * sing.scale)
                               \div SingularityDen]
           st1 == [st EXCEPT
                     !.status = IF sing.raised THEN sing.status ELSE @,
                     !.status_trace =
                        Append(@, IF sing.raised THEN sing.status ELSE st.status),
                     !.kinematic_state = setJointGroupPositions(@, kin.probe)]
       IN internalServoUpdate(delta_theta, traj, st1, original, use_gazebo,
                              collision_scale)

\* ------------------------------------------------------------------------
\* Initial state: the object after construction, no message received
\* ------------------------------------------------------------------------
StartTime == Timeout

\* the configurations: gazebo mode with unlimited halt messages, and every
\* limited number of halt messages without gazebo mode
ParameterSets ==
  { [use_gazebo |-> TRUE, num_outgoing_halt_msgs_to_publish |-> 0] }
    \cup { [use_gazebo |-> FALSE, num_outgoing_halt_msgs_to_publish |-> k] :
             k \in 1..MaxHaltMsgs }
EmptyJointState == [name |-> <<>>, position |-> <<>>, velocity |-> <<>>]

Init ==
  /\ parameters \in ParameterSets
  /\ now = StartTime
  /\ incoming_joint_state = <<>>
  /\ latest_twist_stamped = <<>>
  /\ latest_joint_cmd = <<>>
  /\ latest_twist_command_stamp = 0
  /\ latest_joint_command_stamp = 0
  /\ latest_nonzero_twist_stamped = FALSE
  /\ latest_nonzero_joint_cmd = FALSE
  /\ collision_velocity_scale = CollisionDen
  /\ kinematic_state = [position |-> Zeros(NumJoints), velocity |-> Zeros(NumJoints)]
  /\ internal_joint_state = [name |-> [i \in Joints |-> i],
                             position |-> Zeros(NumJoints),
                             velocity |-> Zeros(NumJoints)]
  /\ original_joint_state = EmptyJointState
  /\ twist_command_is_stale = FALSE
  /\ joint_command_is_stale = FALSE
  /\ wait_for_servo_commands = TRUE
  /\ paused = FALSE
  /\ stop_requested = FALSE
  /\ zero_velocity_count = 0
  /\ status = NO_WARNING
  /\ prev_joint_velocity = Zeros(NumJoints)
  /\ position_filters = Zeros(NumJoints)
  /\ last_sent_command = <<>>
  /\ timer = "none"
  /\ pc = "idle"
  /\ crashed = FALSE
  /\ ret = [op |-> "none", value |-> FALSE, calls |-> 0]
  /\ events = <<>>
  /\ published = <<>>
  /\ branch = "none"
  /\ cmd_after_stop = FALSE
  /\ zero_run = 0
  /\ run_active = FALSE
  /\ stale_run = 0
  /\ control_dimensions = [d \in 1..6 |-> TRUE]
  /\ drift_dimensions = [d \in 1..6 |-> FALSE]
  /\ tick_dimensions = [control |-> control_dimensions, drift |-> drift_dimensions]
  /\ dimensions_used = <<>>
  /\ arrived = [twist |-> <<>>, jog |-> <<>>, twist_replaced |-> FALSE]
  /\ snapshot = <<>>
  /\ tf_moveit_to_robot_cmd_frame = "uninitialized"
  /\ transform_returned = <<>>
  /\ read_result = <<>>
  /\ status_trace = <<>>
  /\ scaling_result = <<>>
  /\ stop_time_result = <<>>
  /\ path_invalidation_event_send = <<>>
  /\ joint_position_pids = {}
  /\ solve_result = <<>>
  /\ jog_result = <<>>
  /\ halt_result = <<>>
  /\ drift_result = <<>>
  /\ latest_state_mutex = "free"
  /\ executor_at = [fn |-> "none", ip |-> 0]
  /\ caller_at = [fn |-> "none", ip |-> 0]

\* ------------------------------------------------------------------------
\* Subscription callbacks and the public interface.  The subscriptions and
\* the timer are created on the node's default callback group, which is
\* mutually exclusive: a subscription callback never runs while run() does.
\* start(), stop() and setPaused() are called from the caller's thread.
\* ------------------------------------------------------------------------
jointStateCB(msg) ==
  /\ ~crashed
  /\ pc = "idle"
  /\ incoming_joint_state' = <<msg>>
  /\ UNCHANGED << threadVars, path_invalidation_event_send, joint_position_pids, solve_result, jog_result, halt_result, drift_result, stop_time_result, scaling_result, status_trace, read_result, tfVars, dimVars, arrived, dimensions_used, snapshot,
                  parameters, now, latest_twist_stamped, latest_joint_cmd,
                  latest_twist_command_stamp, latest_joint_command_stamp,
                  latest_nonzero_twist_stamped, latest_nonzero_joint_cmd,
                  collision_velocity_scale, calcVars, internal_joint_state,
                  original_joint_state, wait_for_servo_commands, paused,
                  stop_requested, status, last_sent_command, timer, pc, crashed,
                  ret, obsVars >>

\* "latest_twist_stamped_ = msg": the pointer is replaced, nothing is queued
latestMessage_KeepFirst(held, msg) == IF held = <<>> THEN <<msg>> ELSE held
latestMessage(held, msg) == <<msg>>

twistStampedCB(msg) ==
  /\ ~crashed
  /\ pc = "idle"
  /\ latest_twist_stamped' = latestMessage(latest_twist_stamped, msg)
  /\ arrived' = [arrived EXCEPT
                   !.twist = <<msg>>,
                   !.twist_replaced =
                      /\ arrived.twist # <<>> /\ arrived.twist[1] # msg
                      /\ msg.stamp # 0 /\ arrived.twist[1].stamp = msg.stamp]
  /\ latest_nonzero_twist_stamped' = isNonZeroTwist(msg)
  /\ latest_twist_command_stamp' =
       IF msg.stamp # 0 THEN msg.stamp ELSE latest_twist_command_stamp
  /\ UNCHANGED << threadVars, path_invalidation_event_send, joint_position_pids, solve_result, jog_result, halt_result, drift_result, stop_time_result, scaling_result, status_trace, read_result, tfVars, dimVars, dimensions_used, snapshot,
                  parameters, now, incoming_joint_state, latest_joint_cmd,
                  latest_joint_command_stamp, latest_nonzero_joint_cmd,
                  collision_velocity_scale, calcVars, internal_joint_state,
                  original_joint_state, wait_for_servo_commands, paused,
                  stop_requested, status, last_sent_command, timer, pc, crashed,
                  ret, obsVars >>

jointCmdCB(msg) ==
  /\ ~crashed
  /\ pc = "idle"
  /\ latest_joint_cmd' = latestMessage(latest_joint_cmd, msg)
  /\ arrived' = [arrived EXCEPT !.jog = <<msg>>]
  /\ latest_nonzero_joint_cmd' = isNonZeroJog(msg)
  /\ latest_joint_command_stamp' =
       IF msg.stamp # 0 THEN msg.stamp ELSE latest_joint_command_stamp
  /\ UNCHANGED << threadVars, path_invalidation_event_send, joint_position_pids, solve_result, jog_result, halt_result, drift_result, stop_time_result, scaling_result, status_trace, read_result, tfVars, dimVars, dimensions_used, snapshot,
                  parameters, now, incoming_joint_state, latest_twist_stamped,
                  latest_twist_command_stamp, latest_nonzero_twist_stamped,
                  collision_velocity_scale, calcVars, internal_joint_state,
                  original_joint_state, wait_for_servo_commands, paused,
                  stop_requested, status, last_sent_command, timer, pc, crashed,
                  ret, obsVars >>

\* collisionVelocityScaleCB: the scale is stored as received
collisionVelocityScaleCB(data) ==
  /\ ~crashed
  /\ pc = "idle"
  /\ collision_velocity_scale' = data
  /\ UNCHANGED << threadVars, path_invalidation_event_send, joint_position_pids, solve_result, jog_result, halt_result, drift_result, stop_time_result, scaling_result, status_trace, read_result, tfVars, dimVars, arrived, dimensions_used, snapshot,
                  parameters, now, sharedVars, calcVars, internal_joint_state,
                  original_joint_state, wait_for_servo_commands, paused,
                  stop_requested, status, last_sent_command, timer, pc, crashed,
                  ret, obsVars >>

\* The services are created on the default callback group too: the executor
\* serves a request only while it is not inside run()
executorServes_Anytime(position) == TRUE
executorServes(position) == position = "idle"

\* changeDriftDimensions: the six flags are assigned from the request
changeDriftDimensions(req) ==
  /\ ~crashed
  /\ executorServes(pc)
  /\ drift_dimensions' = req
  /\ tick_dimensions' = IF pc = "idle" THEN [tick_dimensions EXCEPT !.drift = req]
                        ELSE tick_dimensions
  /\ UNCHANGED << threadVars, path_invalidation_event_send, joint_position_pids, solve_result, jog_result, halt_result, drift_result, stop_time_result, scaling_result, status_trace, read_result, tfVars, control_dimensions, dimensions_used, snapshot,
                  arrived, parameters, now,
                  sharedVars, collision_velocity_scale, calcVars,
                  internal_joint_state, original_joint_state,
                  wait_for_servo_commands, paused, stop_requested, status,
                  last_sent_command, timer, pc, crashed, ret, obsVars >>

\* changeControlDimensions: the six flags are assigned from the request
changeControlDimensions(req) ==
  /\ ~crashed
  /\ executorServes(pc)
  /\ control_dimensions' = req
  /\ tick_dimensions' = IF pc = "idle" THEN [tick_dimensions EXCEPT !.control = req]
                        ELSE tick_dimensions
  /\ UNCHANGED << threadVars, path_invalidation_event_send, joint_position_pids, solve_result, jog_result, halt_result, drift_result, stop_time_result, scaling_result, status_trace, read_result, tfVars, drift_dimensions, dimensions_used, snapshot,
                  arrived, parameters, now,
                  sharedVars, collision_velocity_scale, calcVars,
                  internal_joint_state, original_joint_state,
                  wait_for_servo_commands, paused, stop_requested, status,
                  last_sent_command, timer, pc, crashed, ret, obsVars >>

setPaused(b) ==
  /\ ~crashed
  /\ paused' = b
  /\ UNCHANGED << threadVars, path_invalidation_event_send, joint_position_pids, solve_result, jog_result, halt_result, drift_result, stop_time_result, scaling_result, status_trace, read_result, tfVars, dimVars, arrived, dimensions_used, snapshot,
                  ret, parameters, now, sharedVars, collision_velocity_scale,
                  calcVars, internal_joint_state, original_joint_state,
                  wait_for_servo_commands, stop_requested, status, last_sent_command,
                  timer, pc, crashed, obsVars >>

\* start(): refused while no joint state was received; otherwise
\* updateJoints() (its result is not looked at), the "last published" command,
\* stop_requested_ = false and a new wall timer
startInitialTrajectory(internal) ==
  [joint_names |-> internal.name,
   points |-> << ComposePoint(internal, Zeros(NumJoints)) >>]

start ==
  /\ ~crashed
  /\ IF incoming_joint_state = <<>>
     THEN /\ ret' = [op |-> "start", value |-> FALSE, calls |-> 1 - ret.calls]
          /\ UNCHANGED << internal_joint_state, original_joint_state,
                          last_sent_command, stop_requested, timer >>
     ELSE /\ internal_joint_state' =
               updateJointsState(incoming_joint_state, internal_joint_state)
          /\ original_joint_state' =
               IF updateJointsOk(incoming_joint_state)
               THEN internal_joint_state' ELSE original_joint_state
          /\ last_sent_command' = << startInitialTrajectory(internal_joint_state') >>
          /\ stop_requested' = FALSE
          /\ timer' = "armed"
          /\ ret' = [op |-> "start", value |-> TRUE, calls |-> 1 - ret.calls]
  /\ UNCHANGED << threadVars, path_invalidation_event_send, joint_position_pids, solve_result, jog_result, halt_result, drift_result, stop_time_result, scaling_result, status_trace, read_result, tfVars, dimVars, arrived, dimensions_used, snapshot,
                  parameters, now, sharedVars, collision_velocity_scale,
                  calcVars, wait_for_servo_commands, paused, status, pc, crashed,
                  obsVars >>

\* stop(): stop_requested_ = true, then timer_->cancel(); timer_ is a null
\* pointer until the first successful start()
stop ==
  /\ ~crashed
  /\ stop_requested' = TRUE
  /\ IF timer = "none"
     THEN crashed' = TRUE /\ timer' = timer
     ELSE crashed' = crashed /\ timer' = "cancelled"
  /\ UNCHANGED << threadVars, path_invalidation_event_send, joint_position_pids, solve_result, jog_result, halt_result, drift_result, stop_time_result, scaling_result, status_trace, read_result, tfVars, dimVars, arrived, dimensions_used, snapshot,
                  ret, parameters, now, sharedVars, collision_velocity_scale,
                  calcVars, internal_joint_state, original_joint_state,
                  wait_for_servo_commands, paused, status, last_sent_command, pc,
                  obsVars >>

\* ------------------------------------------------------------------------
\* run(), the timer callback, in three steps: the status publication, the
\* updateJoints() wait loop, and the rest of the tick
\* ------------------------------------------------------------------------
\* "After we publish status, reset it back to no warnings"
StatusAfterPublish_Keep(st) == st
StatusAfterPublish(st) == NO_WARNING

\* the timer fires: the status is published and reset
runBegin ==
  /\ ~crashed
  /\ timer = "armed"
  /\ pc = "idle"
  /\ now < StartTime + MaxNow
  /\ now' = now + 1
  /\ events' = << "status" >>
  /\ status' = StatusAfterPublish(status)
  /\ pc' = "wait"
  /\ UNCHANGED << threadVars, path_invalidation_event_send, joint_position_pids, solve_result, jog_result, halt_result, drift_result, stop_time_result, scaling_result, status_trace, read_result, tfVars, dimVars, arrived, dimensions_used, snapshot,
                  published, branch, twist_command_is_stale, joint_command_is_stale,
                  parameters, sharedVars, collision_velocity_scale,
                  calcVars, internal_joint_state, original_joint_state,
                  wait_for_servo_commands, paused, stop_requested,
                  last_sent_command, timer, crashed, ret, cmd_after_stop, zero_run,
                  run_active, stale_run >>

\* while (!updateJoints() && ok) { if (stop_requested_) return; sleep }
runUpdateJoints ==
  /\ ~crashed
  /\ pc = "wait"
  /\ IF updateJointsOk(incoming_joint_state)
     THEN /\ internal_joint_state' =
               updateJointsState(incoming_joint_state, internal_joint_state)
          /\ original_joint_state' = internal_joint_state'
          /\ pc' = "servo"
     ELSE /\ stop_requested
          /\ pc' = "done"
          /\ UNCHANGED << internal_joint_state, original_joint_state >>
  /\ UNCHANGED << threadVars, path_invalidation_event_send, joint_position_pids, solve_result, jog_result, halt_result, drift_result, stop_time_result, scaling_result, status_trace, read_result, tfVars, dimVars, arrived, dimensions_used, snapshot,
                  parameters, now, sharedVars, collision_velocity_scale,
                  calcVars, wait_for_servo_commands, paused, stop_requested, status,
                  last_sent_command, timer, crashed, ret, obsVars >>

\* a command is stale by age when it was never received or carries a stamp
\* that is at least the timeout old
ReallyStale(ptr) ==
  ptr = <<>> \/ (ptr[1].stamp # 0 /\ now - ptr[1].stamp >= Timeout)

\* "if (wait_for_servo_commands_ || paused_)": the tick only keeps the filters
\* up to date
skipServo_WaitOnly(waiting, is_paused) == waiting
skipServo(waiting, is_paused) == waiting \/ is_paused

\* the new wait_for_servo_commands_: both snapshot stamps are still Time(0)
stillWaiting_Either(twist_stamp, jog_stamp) == twist_stamp = 0 \/ jog_stamp = 0
stillWaiting(twist_stamp, jog_stamp) == twist_stamp = 0 /\ jog_stamp = 0

\* the selection: Cartesian servoing is prioritized above joint servoing and
\* only commands that are nonzero and not stale run
selectBranch_JointFirst(hnt, tstale, hnj, jstale) ==
  IF hnj /\ ~jstale THEN "joint"
  ELSE IF hnt /\ ~tstale THEN "cartesian" ELSE "nomotion"
selectBranch(hnt, tstale, hnj, jstale) ==
  IF hnt /\ ~tstale THEN "cartesian"
  ELSE IF hnj /\ ~jstale THEN "joint" ELSE "nomotion"

\* ok_to_publish_: the publication is skipped when all inputs have been zero
\* for more than num_outgoing_halt_msgs_to_publish cycles
okToPublish_AtLeast(hnc, n, count) == ~(~hnc /\ n # 0 /\ count >= n)
okToPublish(hnc, n, count) == ~(~hnc /\ n # 0 /\ count > n)

\* the tick from calculateWorstCaseStopTime() to its end.  The result is a
\* record of the new values of everything the tick writes.  The members the
\* tick assigns before it reads them (twist_stamped_cmd_, joint_servo_cmd_,
\* have_nonzero_*_, ok_to_publish_, updated_filters_) are values of the tick;
\* twist_stamped_cmd_ and joint_servo_cmd_ keep their default-constructed
\* value while the latest pointer is null.  The two staleness flags are
\* members of the same kind and are observed until run() returns.
runTick(kin) ==
  LET ks0 == setVariableValues(kinematic_state, incoming_joint_state[1])
      tcmd == IF latest_twist_stamped # <<>> THEN latest_twist_stamped[1]
              ELSE DefaultTwistStamped
      jcmd == IF latest_joint_cmd # <<>> THEN latest_joint_cmd[1]
              ELSE DefaultJointJog
      tstale == (now - latest_twist_command_stamp) >= Timeout
      jstale == (now - latest_joint_command_stamp) >= Timeout
      hnt == latest_nonzero_twist_stamped
      hnj == latest_nonzero_joint_cmd
      hnc == hnt \/ hnj
      n == parameters.num_outgoing_halt_msgs_to_publish
      st0 == [kinematic_state |-> ks0,
              internal_joint_state |-> internal_joint_state,
              status |-> status, prev_joint_velocity |-> prev_joint_velocity,
              position_filters |-> position_filters,
              control_dimensions |-> control_dimensions,
              drift_dimensions |-> drift_dimensions,
              status_trace |-> << status >>, updated_filters |-> FALSE]
      base == [wait_for_servo_commands |-> wait_for_servo_commands,
               zero_velocity_count |-> zero_velocity_count,
               last_sent_command |-> last_sent_command,
               published |-> <<>>, branch |-> "none",
               twist_command_is_stale |-> tstale, joint_command_is_stale |-> jstale,
               st |-> st0, twist_stamped_cmd |-> tcmd, joint_servo_cmd |-> jcmd,
               have_nonzero_twist_stamped |-> hnt, have_nonzero_joint_command |-> hnj,
               have_nonzero_command |-> hnc, ok_to_publish |-> FALSE,
               decided |-> FALSE]
      empty == DefaultTrajectory
  IN
  IF skipServo(wait_for_servo_commands, paused)
  THEN [base EXCEPT
          !.st = [st0 EXCEPT !.position_filters = resetLowPassFilters(original_joint_state),
                             !.updated_filters = TRUE],
          !.wait_for_servo_commands = stillWaiting(tcmd.stamp, jcmd.stamp),
          !.branch = "paused"]
  ELSE
    LET sel == selectBranch(hnt, tstale, hnj, jstale)
        calc == IF sel = "cartesian"
                THEN cartesianServoCalcs(tcmd, empty, st0, original_joint_state,
                                         parameters.use_gazebo,
                                         collision_velocity_scale, kin)
                ELSE IF sel = "joint"
                THEN jointServoCalcs(jcmd, empty, st0, original_joint_state,
                                     parameters.use_gazebo, collision_velocity_scale)
                ELSE [traj |-> ZeroVelocitiesOfPointCopies(last_sent_command[1]),
                      st |-> st0,
                      ok |-> TRUE]
    IN
    IF ~calc.ok
    THEN [base EXCEPT
            !.st = [calc.st EXCEPT
                      !.position_filters = resetLowPassFilters(original_joint_state),
                      !.updated_filters = TRUE],
            !.branch = sel]
    ELSE
      LET traj == IF ~hnc THEN suddenHalt(calc.traj, original_joint_state)
                  ELSE calc.traj
          okp == okToPublish(hnc, n, zero_velocity_count)
          st2 == IF calc.st.updated_filters THEN calc.st
                 ELSE [calc.st EXCEPT
                         !.position_filters =
                            resetLowPassFilters(original_joint_state),
                         !.updated_filters = TRUE]
      IN [base EXCEPT
            !.have_nonzero_twist_stamped = IF ~hnc THEN FALSE ELSE hnt,
            !.have_nonzero_joint_command = IF ~hnc THEN FALSE ELSE hnj,
            !.ok_to_publish = okp,
            !.zero_velocity_count = IF ~hnc THEN zero_velocity_count + 1 ELSE 0,
            !.last_sent_command = IF okp THEN << traj >> ELSE last_sent_command,
            !.published = IF okp THEN << traj >> ELSE <<>>,
            !.st = st2,
            !.branch = sel,
            !.decided = TRUE]

\* what the kinematics can report: far from a singularity the probe step
\* does not move the joints by a whole unit, near one it does
KinematicsReports ==
  { k \in [ini_condition : ConditionNumbers, new_condition : ConditionNumbers,
            dot_u : {-1, 1}, probe : ProbeSteps] :
      /\ (k.ini_condition > LowerSingularityThreshold) <=> (k.probe[1] # 0)
      /\ k.new_condition # k.ini_condition }

runServo ==
  /\ ~crashed
  /\ pc = "servo"
  /\ \E kin \in KinematicsReports : \E r \in {runTick(kin)} :
       LET allzero == ~isNonZeroTwist(r.twist_stamped_cmd)
                      /\ ~isNonZeroJog(r.joint_servo_cmd)
           bothstale == ReallyStale(latest_twist_stamped)
                        /\ ReallyStale(latest_joint_cmd)
       IN /\ twist_command_is_stale' = r.twist_command_is_stale
          /\ joint_command_is_stale' = r.joint_command_is_stale
          /\ wait_for_servo_commands' = r.wait_for_servo_commands
          /\ zero_velocity_count' = r.zero_velocity_count
          /\ last_sent_command' = r.last_sent_command
          /\ status' = r.st.status
          /\ status_trace' = r.st.status_trace
          /\ prev_joint_velocity' = r.st.prev_joint_velocity
          /\ position_filters' = r.st.position_filters
          /\ internal_joint_state' = r.st.internal_joint_state
          /\ kinematic_state' = r.st.kinematic_state
          /\ published' = r.published
          /\ branch' = r.branch
          /\ tf_moveit_to_robot_cmd_frame' = "computed"
          /\ snapshot' =
               << [twist_stamped_cmd |-> r.twist_stamped_cmd,
                   joint_servo_cmd |-> r.joint_servo_cmd,
                   have_nonzero_twist_stamped |-> latest_nonzero_twist_stamped,
                   have_nonzero_joint_command |-> latest_nonzero_joint_cmd] >>
          /\ dimensions_used' =
               IF r.branch = "cartesian"
               THEN << [control |-> control_dimensions, drift |-> drift_dimensions] >>
               ELSE <<>>
          /\ events' = events \o << "stop_time" >>
                         \o (IF r.published # <<>> THEN << "cmd" >> ELSE <<>>)
          /\ cmd_after_stop' = (cmd_after_stop \/ (r.published # <<>> /\ stop_requested))
          /\ run_active' = (r.decided /\ allzero /\ (run_active \/ zero_velocity_count = 0))
          /\ zero_run' = IF run_active' THEN zero_run + 1 ELSE 0
          /\ stale_run' = IF r.decided /\ bothstale THEN stale_run + 1 ELSE 0
  /\ pc' = "done"
  /\ UNCHANGED << threadVars, path_invalidation_event_send, joint_position_pids, solve_result, jog_result, halt_result, drift_result, stop_time_result, scaling_result, read_result, transform_returned, dimVars, arrived, parameters, now, sharedVars, collision_velocity_scale,
                  original_joint_state, paused, stop_requested, timer, crashed, ret >>

\* run() returns
runReturn ==
  /\ ~crashed
  /\ pc = "done"
  /\ pc' = "idle"
  /\ events' = <<>>
  /\ published' = <<>>
  /\ branch' = "none"
  /\ dimensions_used' = <<>>
  /\ snapshot' = <<>>
  /\ status_trace' = <<>>
  /\ arrived' = [arrived EXCEPT !.twist_replaced = FALSE]
  /\ twist_command_is_stale' = FALSE
  /\ joint_command_is_stale' = FALSE
  /\ UNCHANGED << threadVars, path_invalidation_event_send, joint_position_pids, solve_result, jog_result, halt_result, drift_result, stop_time_result, scaling_result, read_result, tfVars, dimVars, parameters, now, sharedVars, collision_velocity_scale, calcVars,
                  internal_joint_state, original_joint_state,
                  wait_for_servo_commands, paused, stop_requested, status,
                  last_sent_command, timer, crashed, ret, cmd_after_stop, zero_run,
                  run_active, stale_run >>

\* ------------------------------------------------------------------------
\* The system
\* ------------------------------------------------------------------------
\* the messages that can arrive now: stamped with the current time, or with
\* the stamp left unset
TwistMsg(t, tw) == [stamp |-> t, frame_id |-> "", twist |-> tw]
JogMsg(t, names, vel) == [stamp |-> t, joint_names |-> names, velocities |-> vel]
MoveX == <<1, 0, 0, 0, 0, 0>>
NaNX == <<NaN, 0, 0, 0, 0, 0>>
AllJointNames == [i \in Joints |-> i]
JogFirst == [i \in Joints |-> IF i = 1 THEN 1 ELSE 0]

\* ------------------------------------------------------------------------
\* The command path: the servo is started once after the first joint state
\* and is neither stopped nor paused; joint states are complete
\* ------------------------------------------------------------------------
NextCmd ==
  \/ jointStateCB(JointStateAtRest)
  \/ \E tw \in {ZeroTwist, MoveX} : twistStampedCB(TwistMsg(now, tw))
  \/ twistStampedCB(TwistMsg(0, MoveX))
  \/ \E v \in {Zeros(NumJoints), JogFirst} : jointCmdCB(JogMsg(now, AllJointNames, v))
  \/ (timer = "none" /\ start)
  \/ runBegin
  \/ runUpdateJoints
  \/ runServo
  \/ runReturn

SpecCmd == Init /\ [][NextCmd]_vars


\* ------------------------------------------------------------------------
\* The life cycle: start, stop and pause from the caller's thread at any
\* point of a tick, complete and short joint states, valid and invalid
\* twists, a jog whose stamp is unset
\* ------------------------------------------------------------------------
NextLife ==
  \/ \E m \in {JointStateAtRest, JointStateShort} : jointStateCB(m)
  \/ \E tw \in {ZeroTwist, MoveX, NaNX} : twistStampedCB(TwistMsg(now, tw))
  \/ jointCmdCB(JogMsg(0, AllJointNames, JogFirst))
  \/ \E b \in BOOLEAN : setPaused(b)
  \/ start
  \/ stop
  \/ runBegin
  \/ runUpdateJoints
  \/ runServo
  \/ runReturn

SpecLife == Init /\ [][NextLife]_vars


\* ------------------------------------------------------------------------
\* Properties
\* ------------------------------------------------------------------------
HaltMsgs == parameters.num_outgoing_halt_msgs_to_publish
SnapshotStamp(ptr) == IF ptr = <<>> THEN 0 ELSE ptr[1].stamp
SnapshotNonZeroTwist == latest_twist_stamped # <<>> /\ isNonZeroTwist(latest_twist_stamped[1])
SnapshotNonZeroJog == latest_joint_cmd # <<>> /\ isNonZeroJog(latest_joint_cmd[1])
StatusCount == Cardinality({ i \in 1..Len(events) : events[i] = "status" })

\* C1: in every tick exactly one status message is published, it comes before
\* any command of the tick, and status is NO_WARNING right after it until the
\* servo calculation of the tick; this holds for ticks that emit no command too
C1_StatusOncePerTick ==
  /\ pc # "idle" => (StatusCount = 1 /\ events[1] = "status")
  /\ pc \in {"wait", "servo"} => status = NO_WARNING
  /\ pc = "idle" => events = <<>>

\* a tick that bailed out of the joint-state wait on a stop request: the
\* status is all it published
C1_Witness ==
  pc = "done" /\ stop_requested /\ events = << "status" >> /\ branch = "none"

\* C2: after num_outgoing_halt_msgs_to_publish + 1 consecutive ticks in which
\* both commands are stale, a tick in which they still are publishes no command
C2_NoCommandAfterStaleRun ==
  ~(pc = "done" /\ HaltMsgs > 0 /\ stale_run >= HaltMsgs + 2 /\ published # <<>>)

\* C3: a command published from the no-motion branch has zero velocities and
\* the positions of original_joint_state in every point
C3_NoMotionCommandHalts ==
  (pc = "done" /\ branch = "nomotion" /\ published # <<>>) =>
    \A k \in 1..Len(published[1].points) :
      /\ published[1].points[k].positions = original_joint_state.position
      /\ \A i \in 1..Len(published[1].points[k].velocities) :
           published[1].points[k].velocities[i] = 0

\* C4: with n = num_outgoing_halt_msgs_to_publish > 0, in a run of ticks with
\* all-zero commands that starts at zero_velocity_count = 0, tick k of the run
\* publishes a command iff k <= n + 1; the status is published in every tick
C4_HaltMessageCount ==
  (pc = "done" /\ branch # "none" /\ run_active /\ HaltMsgs > 0) =>
    /\ (published # <<>>) <=> (zero_run <= HaltMsgs + 1)
    /\ events[1] = "status"

\* tick n + 2 of an all-zero run: nothing is published but the status
C4_Witness ==
  /\ pc = "done" /\ run_active /\ HaltMsgs > 0
  /\ zero_run = HaltMsgs + 2 /\ published = <<>> /\ events[1] = "status"

\* C5: in a tick that reaches the selection, the Cartesian branch runs iff the
\* snapshot twist is nonzero and not stale, the joint branch iff the Cartesian
\* branch does not run and the snapshot jog is nonzero and not stale
C5_CartesianPriority ==
  (pc = "done" /\ branch \in {"cartesian", "joint", "nomotion"}) =>
    /\ (branch = "cartesian") <=> (SnapshotNonZeroTwist /\ ~twist_command_is_stale)
    /\ (branch = "joint") <=>
         (~(SnapshotNonZeroTwist /\ ~twist_command_is_stale)
          /\ SnapshotNonZeroJog /\ ~joint_command_is_stale)

\* a fresh nonzero jog is present and the fresh nonzero twist is what runs
C5_Witness ==
  /\ pc = "done" /\ branch = "cartesian"
  /\ SnapshotNonZeroJog /\ ~joint_command_is_stale

\* C6: when the snapshot twist is nonzero and its stamp is unset, the tick's
\* staleness flag of the twist is false
C6_UnsetStampNeverStale ==
  (pc = "done" /\ branch # "none" /\ SnapshotNonZeroTwist
   /\ SnapshotStamp(latest_twist_stamped) = 0) => ~twist_command_is_stale

\* C7: a tick that finds paused set publishes the status and the worst-case
\* stop time and no command, leaves zero_velocity_count, last_sent_command and
\* prev_joint_velocity alone and resets the filters to the joint positions
C7_PausedTick ==
  [][ (pc = "servo" /\ pc' = "done" /\ paused) =>
        /\ events' = << "status", "stop_time" >>
        /\ published' = <<>>
        /\ zero_velocity_count' = zero_velocity_count
        /\ last_sent_command' = last_sent_command
        /\ prev_joint_velocity' = prev_joint_velocity
        /\ position_filters' = original_joint_state.position ]_vars

\* a paused tick after the servo has moved and published
C7_Witness ==
  /\ pc = "done" /\ branch = "paused" /\ paused
  /\ prev_joint_velocity # Zeros(NumJoints)
  /\ position_filters = original_joint_state.position

\* C8: a tick that finds wait_for_first_command set publishes no command, and
\* the flag is cleared exactly when the snapshot holds a twist or a jog with a
\* nonzero stamp
C8_WaitForFirstCommand ==
  [][ (pc = "servo" /\ pc' = "done" /\ wait_for_servo_commands) =>
        /\ published' = <<>>
        /\ events' = << "status", "stop_time" >>
        /\ wait_for_servo_commands' =
             (SnapshotStamp(latest_twist_stamped) = 0
              /\ SnapshotStamp(latest_joint_cmd) = 0) ]_vars

\* the tick that clears the flag: a stamped twist next to a jog without stamp
C8_Witness ==
  /\ pc = "done" /\ branch = "paused" /\ ~paused /\ ~wait_for_servo_commands
  /\ published = <<>>
  /\ SnapshotStamp(latest_twist_stamped) # 0
  /\ latest_joint_cmd # <<>> /\ SnapshotStamp(latest_joint_cmd) = 0

\* C9: start() returns false and arms no timer when no joint state was
\* received; otherwise it returns true, last_sent_command is one point with the
\* positions the latest joint state reports for the group joints and zero
\* velocities, stop_requested is cleared and the timer is armed
C9_Start ==
  [][ (ret'.calls # ret.calls) =>
        IF incoming_joint_state = <<>>
        THEN ~ret'.value /\ timer' = timer
        ELSE /\ ret'.value
             /\ timer' = "armed"
             /\ ~stop_requested'
             /\ Len(last_sent_command'[1].points) = 1
             /\ last_sent_command'[1].points[1].velocities = Zeros(NumJoints)
             /\ \A c \in Joints :
                  LET m == LastIndexOf(incoming_joint_state[1].name, c)
                  IN m # 0 => last_sent_command'[1].points[1].positions[c]
                                = incoming_joint_state[1].position[m] ]_vars

\* C10: no command is published while stop_requested is set
C10_NoCommandAfterStop == ~cmd_after_stop

\* ------------------------------------------------------------------------
\* The collision scale: the command path with the scale received from the
\* collision check, zero, a half or one
\* ------------------------------------------------------------------------
CollisionScales == { 0, 1, CollisionDen }

NextCollision ==
  \/ jointStateCB(JointStateAtRest)
  \/ \E tw \in {ZeroTwist, MoveX} : twistStampedCB(TwistMsg(now, tw))
  \/ jointCmdCB(JogMsg(now, AllJointNames, JogFirst))
  \/ \E data \in CollisionScales : collisionVelocityScaleCB(data)
  \/ (timer = "none" /\ start)
  \/ runBegin
  \/ runUpdateJoints
  \/ runServo
  \/ runReturn

SpecCollision == Init /\ [][NextCollision]_vars

\* C11: a command published in a tick that ran with collision_velocity_scale
\* = 0 has velocity 0 in every joint of every point, whichever branch built it
C11_ZeroScaleZeroVelocity ==
  (pc = "done" /\ collision_velocity_scale = 0 /\ published # <<>>) =>
    \A k \in 1..Len(published[1].points) :
      \A i \in 1..Len(published[1].points[k].velocities) :
        published[1].points[k].velocities[i] = 0

\* ------------------------------------------------------------------------
\* The limits: Cartesian commands that start, reverse and cross the motion of
\* a joint from one tick to the next
\* ------------------------------------------------------------------------
MoveY == <<0, 1, 0, 0, 0, 0>>
BackX == <<-1, 0, 0, 0, 0, 0>>

NextLimits ==
  \/ jointStateCB(JointStateAtRest)
  \/ \E tw \in {ZeroTwist, MoveX, MoveY, BackX} : twistStampedCB(TwistMsg(now, tw))
  \/ (timer = "none" /\ start)
  \/ runBegin
  \/ runUpdateJoints
  \/ runServo
  \/ runReturn

SpecLimits == Init /\ [][NextLimits]_vars

\* C12: in a motion tick that publishes a command and does not halt, the
\* velocity of every joint is within its velocity bounds and its change from
\* the previous velocity over one period is within the acceleration bounds
C12_VelAccelLimits ==
  [][ (pc = "servo" /\ pc' = "done" /\ branch' \in {"cartesian", "joint"}
       /\ published' # <<>> /\ status' # JOINT_BOUND) =>
        \A i \in Joints :
          LET v == published'[1].points[1].velocities[i]
              a == (v - prev_joint_velocity[i]) * PeriodInv
          IN /\ MinVelocity <= v /\ v <= MaxVelocity
             /\ MinAcceleration <= a /\ a <= MaxAcceleration ]_vars

\* ------------------------------------------------------------------------
\* The threads and latest_state_mutex_.  A function is the sequence of its
\* lock and unlock operations and of its accesses to the fields that the
\* executor thread and the caller's thread share; a thread that stands at an
\* access is performing it
\* ------------------------------------------------------------------------
Lock == [op |-> "lock", field |-> "none"]
Unlock == [op |-> "unlock", field |-> "none"]
Read(f) == [op |-> "read", field |-> f]
Write(f) == [op |-> "write", field |-> f]
\* work that is no access to a shared field: an update of or a query to the
\* kinematic state, a Jacobian or SVD computation, a log call, a publish
Do(work) == [op |-> work, field |-> "none"]
LongWork == { "kinematics", "svd", "log", "publish" }

\* updateJoints(): the whole body is under the lock guard
updateJointsAccesses == << Lock, Read("incoming_joint_state"), Unlock >>

\* run(): the status publication, updateJoints(),
\* calculateWorstCaseStopTime(), the snapshot block (which begins with
\* kinematic_state_->setVariableValues), the transform, then the Cartesian
\* calculation with the Jacobian and its SVD, and the publication
runAccesses ==
  << Do("publish") >>
  \o updateJointsAccesses
  \o << Read("incoming_joint_state"), Do("publish") >>
  \o << Lock, Read("incoming_joint_state"), Do("kinematics"),
        Read("latest_twist_stamped"),
        Read("latest_joint_cmd"), Read("latest_command_stamps"),
        Read("latest_nonzero_flags"), Unlock >>
  \o << Do("kinematics"), Write("tf_moveit_to_robot_cmd_frame") >>
  \o << Read("control_dimensions"), Read("tf_moveit_to_robot_cmd_frame"),
        Do("svd"), Read("drift_dimensions"), Do("kinematics"),
        Read("collision_velocity_scale"), Do("publish") >>

\* the callbacks the executor serves and the functions of the public interface
Accesses(fn) ==
  CASE fn = "run" -> runAccesses
    [] fn = "jointStateCB" -> << Lock, Write("incoming_joint_state"), Unlock >>
    [] fn = "twistStampedCB" ->
         << Lock, Write("latest_twist_stamped"), Write("latest_nonzero_flags"),
            Write("latest_command_stamps"), Unlock >>
    [] fn = "jointCmdCB" ->
         << Lock, Write("latest_joint_cmd"), Write("latest_nonzero_flags"),
            Write("latest_command_stamps"), Unlock >>
    [] fn = "collisionVelocityScaleCB" -> << Write("collision_velocity_scale") >>
    [] fn = "changeDriftDimensions" -> << Write("drift_dimensions") >>
    [] fn = "changeControlDimensions" -> << Write("control_dimensions") >>
    [] fn = "getCommandFrameTransform" ->
         << Lock, Read("tf_moveit_to_robot_cmd_frame"), Unlock >>
    [] fn = "getLatestJointState" -> << Read("incoming_joint_state") >>
    [] fn = "start" -> << Read("incoming_joint_state") >> \o updateJointsAccesses

ExecutorFunctions ==
  { "run", "jointStateCB", "twistStampedCB", "jointCmdCB",
    "collisionVelocityScaleCB", "changeDriftDimensions", "changeControlDimensions" }
CallerFunctions == { "getCommandFrameTransform", "getLatestJointState", "start" }

\* what a thread at position at is doing
Current(at) ==
  IF at.fn = "none" THEN [op |-> "none", field |-> "none"]
  ELSE Accesses(at.fn)[at.ip]

\* the position after the operation at position at
Advance(at) ==
  IF at.ip = Len(Accesses(at.fn)) THEN [fn |-> "none", ip |-> 0]
  ELSE [at EXCEPT !.ip = @ + 1]

\* one step of a thread: it enters a function, takes or releases the mutex,
\* or finishes the access it stands at
threadStep(thread, at, functions) ==
  IF at.fn = "none"
  THEN /\ \E fn \in functions : at' = [fn |-> fn, ip |-> 1]
       /\ UNCHANGED latest_state_mutex
  ELSE /\ at' = Advance(at)
       /\ IF Current(at).op = "lock"
          THEN latest_state_mutex = "free" /\ latest_state_mutex' = thread
          ELSE IF Current(at).op = "unlock"
               THEN latest_state_mutex' = "free"
               ELSE UNCHANGED latest_state_mutex

executorStep ==
  /\ threadStep("executor", executor_at, ExecutorFunctions)
  /\ UNCHANGED << modelVars, caller_at >>

callerStep ==
  /\ threadStep("caller", caller_at, CallerFunctions)
  /\ UNCHANGED << modelVars, executor_at >>

NextThreads == executorStep \/ callerStep

SpecThreads == Init /\ [][NextThreads]_vars

IsAccess(ins) == ins.op \in {"read", "write"}

\* C13: the executor thread and the caller's thread never access one shared
\* field at the same time with at least one of them writing it
C13_NoConcurrentAccess ==
  ~ /\ IsAccess(Current(executor_at)) /\ IsAccess(Current(caller_at))
    /\ Current(executor_at).field = Current(caller_at).field
    /\ "write" \in { Current(executor_at).op, Current(caller_at).op }

\* ------------------------------------------------------------------------
\* The dimension masks: Cartesian commands while the control and the drift
\* dimensions are changed through the services
\* ------------------------------------------------------------------------
AllDimensions == [d \in 1..6 |-> TRUE]
NoDimension == [d \in 1..6 |-> FALSE]
OnlyX == [d \in 1..6 |-> d = 1]
AllButX == [d \in 1..6 |-> d # 1]
DimensionRequests == { AllDimensions, NoDimension, OnlyX, AllButX }

NextDimensions ==
  \/ jointStateCB(JointStateAtRest)
  \/ \E tw \in {ZeroTwist, MoveX, MoveY} : twistStampedCB(TwistMsg(now, tw))
  \/ \E req \in DimensionRequests : changeControlDimensions(req)
  \/ \E req \in DimensionRequests : changeDriftDimensions(req)
  \/ (timer = "none" /\ start)
  \/ runBegin
  \/ runUpdateJoints
  \/ runServo
  \/ runReturn

SpecDimensions == Init /\ [][NextDimensions]_vars

C15_LatestMessageOnly ==
  snapshot # <<>> =>
    /\ arrived.twist # <<>> =>
         /\ snapshot[1].twist_stamped_cmd = arrived.twist[1]
         /\ snapshot[1].have_nonzero_twist_stamped = isNonZeroTwist(arrived.twist[1])
    /\ arrived.jog # <<>> =>
         /\ snapshot[1].joint_servo_cmd = arrived.jog[1]
         /\ snapshot[1].have_nonzero_joint_command = isNonZeroJog(arrived.jog[1])

\* a tick took its snapshot after two different twists had arrived since the
\* tick before, the second one nonzero, and after a jog had arrived
C15_Witness ==
  /\ pc = "done"
  /\ snapshot # <<>>
  /\ arrived.twist_replaced
  /\ snapshot[1].have_nonzero_twist_stamped
  /\ arrived.jog # <<>>


\* ---------------------------------------------------------------------
\* The wait loop of run().  The executor thread runs one callback at a time:
\* once run() has begun, the thread keeps executing it, so every step of run()
\* that is possible is eventually taken.  Nothing obliges a joint state to
\* arrive or the caller to call stop().
NextWait ==
  \/ \E m \in {JointStateAtRest, JointStateShort} : jointStateCB(m)
  \/ twistStampedCB(TwistMsg(now, MoveX))
  \/ start
  \/ stop
  \/ runBegin
  \/ runUpdateJoints
  \/ runServo
  \/ runReturn

SpecWait ==
  /\ Init
  /\ [][NextWait]_vars
  /\ WF_vars(runUpdateJoints)
  /\ WF_vars(runServo)
  /\ WF_vars(runReturn)

\* C16: every invocation of the tick eventually returns, also when the latest
\* joint state is shorter than the group and the handlers that could replace
\* it share the executor with the tick: a tick that has begun leads to the
\* executor being idle again (or to the process having ended).
C16_TickReturns == (pc = "wait") ~> (pc = "idle" \/ crashed)


\* ---------------------------------------------------------------------
\* C17: a tick whose selected command is invalid (a twist with a NaN or, for
\* unitless commands, a component above 1; a jog with a NaN) publishes no
\* command, leaves last_sent_command, zero_velocity_count and
\* prev_joint_velocity as they were, leaves status at NO_WARNING, resets the
\* position filters to the current joint positions, and ends like any other
\* tick, so that the next tick can run.
C17_InvalidCommandTick ==
  [][ ( /\ pc = "servo" /\ pc' = "done"
        /\ snapshot' # <<>>
        /\ \/ /\ branch' = "cartesian"
              /\ \E d \in 1..6 :
                   \/ IsNaN(snapshot'[1].twist_stamped_cmd.twist[d])
                   \/ /\ command_in_type = "unitless"
                      /\ Abs(snapshot'[1].twist_stamped_cmd.twist[d]) > 1
           \/ /\ branch' = "joint"
              /\ \E k \in 1..Len(snapshot'[1].joint_servo_cmd.velocities) :
                   IsNaN(snapshot'[1].joint_servo_cmd.velocities[k]) )
      => /\ published' = <<>>
         /\ last_sent_command' = last_sent_command
         /\ zero_velocity_count' = zero_velocity_count
         /\ prev_joint_velocity' = prev_joint_velocity
         /\ status' = NO_WARNING
         /\ position_filters' = resetLowPassFilters(original_joint_state)
         /\ wait_for_servo_commands' = wait_for_servo_commands
         /\ ~crashed' ]_vars

\* a tick has just rejected a NaN twist after an earlier tick had published a
\* moving command
C17_Witness ==
  /\ pc = "done"
  /\ branch = "cartesian"
  /\ snapshot # <<>>
  /\ \E d \in 1..6 : IsNaN(snapshot[1].twist_stamped_cmd.twist[d])
  /\ published = <<>>
  /\ last_sent_command # <<>>
  /\ \E i \in Joints : prev_joint_velocity[i] # 0


\* ---------------------------------------------------------------------
\* getCommandFrameTransform(): copies the transform under the mutex and
\* returns !isZero.  The computed transform is never zero; the content of the
\* member before the first tick is indeterminate, so isZero can go either way.
isZeroOutcomes(tf) == IF tf = "computed" THEN {FALSE} ELSE BOOLEAN

getCommandFrameTransform ==
  /\ ~crashed
  /\ \E zero \in isZeroOutcomes(tf_moveit_to_robot_cmd_frame) :
       transform_returned' =
         << [value |-> ~zero,
             computed |-> tf_moveit_to_robot_cmd_frame = "computed"] >>
  /\ UNCHANGED << threadVars, path_invalidation_event_send, joint_position_pids, solve_result, jog_result, halt_result, drift_result, stop_time_result, scaling_result, status_trace, read_result, tf_moveit_to_robot_cmd_frame, dimVars, arrived,
                  dimensions_used, snapshot, parameters, now, sharedVars,
                  collision_velocity_scale, calcVars, internal_joint_state,
                  original_joint_state, wait_for_servo_commands, paused,
                  stop_requested, status, last_sent_command, timer, pc, crashed,
                  ret, obsVars >>

NextTransform ==
  \/ jointStateCB(JointStateAtRest)
  \/ \E tw \in {ZeroTwist, MoveX} : twistStampedCB(TwistMsg(now, tw))
  \/ start
  \/ stop
  \/ getCommandFrameTransform
  \/ runBegin
  \/ runUpdateJoints
  \/ runServo
  \/ runReturn

SpecTransform == Init /\ [][NextTransform]_vars

\* C18: getCommandFrameTransform returns true iff a tick has computed the
\* transform since construction; before the first tick it returns false
\* whatever the memory of the transform holds.
C18_TransformIffComputed ==
  transform_returned # <<>> =>
    (transform_returned[1].value <=> transform_returned[1].computed)


\* ---------------------------------------------------------------------
\* readParameters().  Real-valued parameters are counted in units of
\* 1/ParamDen, so that ParamDen stands for 1.0.
ParamDen == 2

\* the input checks of readParameters, in the order of the code; the result
\* names the check that returned false, "none" when all passed
ruleChecks(p) ==
  IF p.publish_period <= 0 THEN "publish_period"
  ELSE IF p.num_outgoing_halt_msgs_to_publish < 0
  THEN "num_outgoing_halt_msgs_to_publish"
  ELSE IF p.hard_stop_singularity_threshold < p.lower_singularity_threshold
  THEN "singularity_threshold_order"
  ELSE IF p.hard_stop_singularity_threshold < 0 \/ p.lower_singularity_threshold < 0
  THEN "singularity_threshold_sign"
  ELSE IF p.low_pass_filter_coeff < 0 THEN "low_pass_filter_coeff"
  ELSE IF p.joint_limit_margin < 0 THEN "joint_limit_margin"
  ELSE IF p.command_in_type # "unitless" /\ p.command_in_type # "speed_units"
  THEN "command_in_type"
  ELSE IF /\ p.command_out_type # "trajectory_msgs/JointTrajectory"
          /\ p.command_out_type # "std_msgs/Float64MultiArray"
  THEN "command_out_type"
  ELSE IF /\ ~p.publish_joint_positions
          /\ ~p.publish_joint_velocities
          /\ ~p.publish_joint_accelerations
  THEN "publish_nothing"
  ELSE IF /\ p.command_out_type = "std_msgs/Float64MultiArray"
          /\ p.publish_joint_positions
          /\ p.publish_joint_velocities
  THEN "multiarray_positions_and_velocities"
  ELSE IF /\ p.collision_check_type # "threshold_distance"
          /\ p.collision_check_type # "stop_distance"
  THEN "collision_check_type"
  ELSE IF p.self_collision_proximity_threshold < 0
  THEN "self_collision_proximity_threshold"
  ELSE IF p.scene_collision_proximity_threshold < 0
  THEN "scene_collision_proximity_threshold"
  ELSE IF p.collision_check_rate < 0 THEN "collision_check_rate"
  ELSE IF p.collision_distance_safety_factor < ParamDen
  THEN "collision_distance_safety_factor"
  ELSE IF p.min_allowable_collision_distance < 0
  THEN "min_allowable_collision_distance"
  ELSE "none"

\* readParameters: no namespace, then "error |= declareAndGetParam(...)" for
\* every parameter (got is whether any of these calls returned true) and
\* "if (error) return false", then the input checks
readParametersResult(got, p) ==
  IF p.parameter_ns = "" THEN [value |-> FALSE, rule |-> "parameter_ns"]
  ELSE IF got THEN [value |-> FALSE, rule |-> "error"]
  ELSE LET failed == ruleChecks(p)
       IN [value |-> failed = "none", rule |-> failed]

\* the node reads its parameters once, when it is set up
readParameters(got, p) ==
  /\ read_result = <<>>
  /\ read_result' = << [got |-> got, config |-> p,
                        result |-> readParametersResult(got, p)] >>
  /\ UNCHANGED << threadVars, path_invalidation_event_send, joint_position_pids, solve_result, jog_result, halt_result, drift_result, stop_time_result, scaling_result, status_trace, tfVars, dimVars, arrived,
                  dimensions_used, snapshot, parameters, now, sharedVars,
                  collision_velocity_scale, calcVars, internal_joint_state,
                  original_joint_state, wait_for_servo_commands, paused,
                  stop_requested, status, last_sent_command, timer, pc, crashed,
                  ret, obsVars >>

\* a configuration that passes every check
NominalConfig ==
  [publish_joint_positions |-> TRUE,
   publish_joint_velocities |-> TRUE,
   publish_joint_accelerations |-> FALSE,
   command_in_type |-> "unitless",
   num_outgoing_halt_msgs_to_publish |-> 1,
   publish_period |-> 1,
   hard_stop_singularity_threshold |-> 2 * ParamDen,
   lower_singularity_threshold |-> ParamDen,
   low_pass_filter_coeff |-> 2 * ParamDen,
   joint_limit_margin |-> 0,
   command_out_type |-> "trajectory_msgs/JointTrajectory",
   collision_check_type |-> "threshold_distance",
   self_collision_proximity_threshold |-> 0,
   scene_collision_proximity_threshold |-> 0,
   collision_check_rate |-> 0,
   collision_distance_safety_factor |-> ParamDen,
   min_allowable_collision_distance |-> 0,
   parameter_ns |-> "servo_server"]

\* the configurations read: the nominal one with the period, the singularity
\* thresholds, the filter coefficient, the output type and the publish flags
\* varied around their limits
Configs ==
  { [NominalConfig EXCEPT
       !.publish_period = period,
       !.hard_stop_singularity_threshold = hard,
       !.lower_singularity_threshold = lower,
       !.low_pass_filter_coeff = coeff,
       !.command_out_type = out,
       !.publish_joint_positions = flags[1],
       !.publish_joint_velocities = flags[2],
       !.publish_joint_accelerations = flags[3]] :
     period \in {0, 1},
     hard \in {-1, 0, ParamDen},
     lower \in {-1, 0, ParamDen},
     coeff \in {-1, 0, 1, ParamDen, 2 * ParamDen},
     out \in {"trajectory_msgs/JointTrajectory", "std_msgs/Float64MultiArray"},
     flags \in BOOLEAN \X BOOLEAN \X BOOLEAN }

NextParameters == \E got \in BOOLEAN : \E p \in Configs : readParameters(got, p)

SpecParameters == Init /\ [][NextParameters]_vars

\* C19: readParameters rejects, by one of its input checks, every
\* configuration that breaks a documented rule: low_pass_filter_coeff below 1,
\* a singularity threshold that is not positive, a hard-stop threshold below
\* the lower threshold, a publish period that is not positive, and multiarray
\* output with both or neither of positions and velocities selected.
C19_RuleChecksReject ==
  read_result # <<>> =>
    LET p == read_result[1].config
        breaks ==
          \/ p.low_pass_filter_coeff < ParamDen
          \/ p.hard_stop_singularity_threshold <= 0
          \/ p.lower_singularity_threshold <= 0
          \/ p.hard_stop_singularity_threshold < p.lower_singularity_threshold
          \/ p.publish_period <= 0
          \/ /\ p.command_out_type = "std_msgs/Float64MultiArray"
             /\ p.publish_joint_positions = p.publish_joint_velocities
    IN breaks => /\ ~read_result[1].result.value
                 /\ read_result[1].result.rule \notin {"none", "error", "parameter_ns"}


\* ---------------------------------------------------------------------
\* C20: a tick that selects no fresh nonzero command (the no-motion branch)
\* increments zero_velocity_count first and publishes the command iff
\* num_outgoing_halt_msgs_to_publish is 0 or the incremented count is at most
\* that number; a tick that computes with a nonzero command sets the count to
\* 0 and publishes (unless the calculation rejected the command, which
\* leaves the count alone and publishes nothing).
C20_CountThenPublish ==
  [][ (pc = "servo" /\ pc' = "done") =>
        /\ (branch' = "nomotion") =>
             /\ zero_velocity_count' = zero_velocity_count + 1
             /\ (published' # <<>>) <=>
                  (HaltMsgs = 0 \/ zero_velocity_count' <= HaltMsgs)
        /\ (branch' \in {"cartesian", "joint"}) =>
             \/ zero_velocity_count' = 0 /\ published' # <<>>
             \/ zero_velocity_count' = zero_velocity_count /\ published' = <<>>
    ]_vars


\* ---------------------------------------------------------------------
\* The status writes of a tick: joint states at rest and at the upper limit,
\* a moving twist, a jog, and every collision scale
NextStatus ==
  \/ \E m \in {JointStateAtRest, JointStateAtLimit} : jointStateCB(m)
  \/ twistStampedCB(TwistMsg(now, MoveX))
  \/ jointCmdCB(JogMsg(now, AllJointNames, JogFirst))
  \/ \E data \in CollisionScales : collisionVelocityScaleCB(data)
  \/ (timer = "none" /\ start)
  \/ runBegin
  \/ runUpdateJoints
  \/ runServo
  \/ runReturn

SpecStatus == Init /\ [][NextStatus]_vars

\* C21: within a tick every write of status sets a code that is not lower
\* than the current one (NO_WARNING < DECELERATE_FOR_SINGULARITY <
\* HALT_FOR_SINGULARITY < DECELERATE_FOR_COLLISION < HALT_FOR_COLLISION <
\* JOINT_BOUND), so that the status the tick leaves for the next publication
\* is the highest alert raised in it; a collision scale in (0, 1) raises
\* DECELERATE_FOR_COLLISION and a scale of 0 HALT_FOR_COLLISION in a tick
\* that computes a motion.
C21_StatusOnlyRaised ==
  (pc = "done" /\ status_trace # <<>>) =>
    /\ \A k \in 1..(Len(status_trace) - 1) : status_trace[k] <= status_trace[k + 1]
    /\ status = status_trace[Len(status_trace)]
    /\ \A k \in 1..Len(status_trace) : status_trace[k] <= status
    /\ (branch \in {"cartesian", "joint"} /\ Len(status_trace) > 1) =>
         LET after == status_trace[IF branch = "cartesian" THEN 3 ELSE 2]
         IN /\ (collision_velocity_scale > 0 /\ collision_velocity_scale < CollisionDen)
                 => after = DECELERATE_FOR_COLLISION
            /\ collision_velocity_scale = 0 => after = HALT_FOR_COLLISION

\* a Cartesian tick raised the status three times: halt for the singularity,
\* decelerate for the collision, joint bound
C21_Witness ==
  /\ pc = "done"
  /\ status_trace = << NO_WARNING, HALT_FOR_SINGULARITY, DECELERATE_FOR_COLLISION,
                       JOINT_BOUND >>


\* ---------------------------------------------------------------------
\* Collision scales outside [0, 1]: the topic carries a Float64 and the
\* callback stores whatever it receives (-0.5, 0.5, 1.5 here)
NextUnclamped ==
  \/ jointStateCB(JointStateAtRest)
  \/ jointCmdCB(JogMsg(now, AllJointNames, JogFirst))
  \/ \E data \in { -1, 1, CollisionDen + 1 } : collisionVelocityScaleCB(data)
  \/ (timer = "none" /\ start)
  \/ runBegin
  \/ runUpdateJoints
  \/ runServo
  \/ runReturn

SpecUnclamped == Init /\ [][NextUnclamped]_vars

\* C22: the collision scale applied is clamp(collision_velocity_scale, 0, 1):
\* for every received value, also below 0 or above 1, the delta of each joint
\* after the collision scaling (the joint velocity of the tick over the
\* period) has the sign of the limit-enforced delta and is not larger in
\* magnitude.
C22_CollisionScaleClamped ==
  [][ (pc = "servo" /\ pc' = "done" /\ branch' = "joint" /\ snapshot' # <<>>
       /\ checkValidJog(snapshot'[1].joint_servo_cmd)) =>
        LET limited == enforceSRDFAccelVelLimits(
                         scaleJointCommand(snapshot'[1].joint_servo_cmd),
                         prev_joint_velocity)
        IN \A i \in Joints :
             LET v == internal_joint_state'.velocity[i]
             IN /\ v * limited[i] >= 0
                /\ Abs(v) <= Abs(limited[i]) * PeriodInv ]_vars


\* ---------------------------------------------------------------------
\* velocityScalingFactorForSingularity on its own, for every condition number
\* up to MaxCondition before and after the probe step and every sign of the
\* dot product of the last column of U with the command
MaxCondition == 6

singularityAnalysis(ini_condition, new_condition, dot_u) ==
  /\ scaling_result' =
       << [ini_condition |-> ini_condition, new_condition |-> new_condition,
           dot_u |-> dot_u,
           dot |-> IF flipsDirection(ini_condition, new_condition)
                   THEN -dot_u ELSE dot_u,
           result |-> velocityScalingFactorForSingularity(ini_condition,
                                                          new_condition, dot_u),
           flipped |-> flipsDirection(ini_condition, new_condition)] >>
  /\ UNCHANGED << threadVars, path_invalidation_event_send, joint_position_pids, solve_result, jog_result, halt_result, drift_result, stop_time_result, status_trace, read_result, tfVars, dimVars, arrived,
                  dimensions_used, snapshot, parameters, now, sharedVars,
                  collision_velocity_scale, calcVars, internal_joint_state,
                  original_joint_state, wait_for_servo_commands, paused,
                  stop_requested, status, last_sent_command, timer, pc, crashed,
                  ret, obsVars >>

NextSingularity ==
  \E ini_condition \in 1..MaxCondition : \E new_condition \in 1..MaxCondition :
    \E dot_u \in {-1, 0, 1} :
      singularityAnalysis(ini_condition, new_condition, dot_u)

SpecSingularity == Init /\ [][NextSingularity]_vars

\* C23: when the command points toward the singularity (d > 0) the scale is
\* 1 for a condition number k <= lower threshold, 1 - (k - lower)/(hard -
\* lower) with DECELERATE_FOR_SINGULARITY for lower < k < hard, and 0 with
\* HALT_FOR_SINGULARITY for every k >= hard threshold, k = hard included; when
\* d <= 0 the scale is 1 and the status is not written.  (Scales are
\* numerators over hard - lower.)
C23_SingularityScale ==
  scaling_result # <<>> =>
    LET k == scaling_result[1].ini_condition
        d == scaling_result[1].dot
        r == scaling_result[1].result
    IN /\ (d > 0 /\ k <= LowerSingularityThreshold) =>
            (r.scale = SingularityDen /\ ~r.raised)
       /\ (d > 0 /\ k > LowerSingularityThreshold /\ k < HardStopSingularityThreshold) =>
            /\ r.scale = SingularityDen - (k - LowerSingularityThreshold)
            /\ r.raised /\ r.status = DECELERATE_FOR_SINGULARITY
       /\ (d > 0 /\ k >= HardStopSingularityThreshold) =>
            (r.scale = 0 /\ r.raised /\ r.status = HALT_FOR_SINGULARITY)
       /\ (d <= 0) => (r.scale = SingularityDen /\ ~r.raised)

C24_ProbeRestored ==
  [][ (pc = "servo" /\ pc' = "done" /\ branch' = "cartesian" /\ snapshot' # <<>>
       /\ checkValidTwist(snapshot'[1].twist_stamped_cmd)) =>
        kinematic_state'.position =
          setVariableValues(kinematic_state, incoming_joint_state[1]).position
    ]_vars


\* ---------------------------------------------------------------------
\* C26: when the position-bound check fails in a tick that computes a motion,
\* the command of the tick has the positions of original_joint_state and
\* velocity 0 for every joint, status is JOINT_BOUND and prev_joint_velocity
\* is all zeros at the end of the tick; the command is published all the same
\* and zero_velocity_count is set to 0.
C26_JointBoundHalt ==
  [][ ( /\ pc = "servo" /\ pc' = "done"
        /\ \/ branch' = "cartesian" /\ Len(status_trace') = 4
           \/ branch' = "joint" /\ Len(status_trace') = 3
        /\ ~enforceSRDFPositionLimits(kinematic_state', original_joint_state) )
      => /\ published' # <<>>
         /\ published'[1].points[1].positions = original_joint_state.position
         /\ \A k \in 1..Len(published'[1].points) :
              \A i \in 1..Len(published'[1].points[k].velocities) :
                published'[1].points[k].velocities[i] = 0
         /\ last_sent_command' = published'
         /\ status' = JOINT_BOUND
         /\ prev_joint_velocity' = Zeros(NumJoints)
         /\ zero_velocity_count' = 0 ]_vars

\* a Cartesian tick at the upper position limit, with the full collision
\* scale and a free way in velocity, has halted for the joint bound
C26_Witness ==
  /\ pc = "done"
  /\ branch = "cartesian"
  /\ status_trace = << NO_WARNING, NO_WARNING, NO_WARNING, JOINT_BOUND >>
  /\ published # <<>>
  /\ original_joint_state.position[1] = MaxPosition
  /\ internal_joint_state.velocity[1] # 0


\* ---------------------------------------------------------------------
\* A robot that stands still at its upper position limit: the joint state
\* reports the limit position and velocity zero
JointStateStillAtLimit ==
  [name |-> [i \in Joints |-> i], position |-> [i \in Joints |-> MaxPosition],
   velocity |-> [i \in Joints |-> 0]]

NextBound ==
  \/ \E m \in {JointStateAtLimit, JointStateStillAtLimit} : jointStateCB(m)
  \/ \E v \in {Zeros(NumJoints), JogFirst} : jointCmdCB(JogMsg(now, AllJointNames, v))
  \/ (timer = "none" /\ start)
  \/ runBegin
  \/ runUpdateJoints
  \/ runServo
  \/ runReturn

SpecBound == Init /\ [][NextBound]_vars

\* C27: no published command moves a joint that is beyond its inner position
\* margin further toward the nearer bound: in a tick of the joint branch, if
\* the position of a joint is above (max - joint_limit_margin) and the
\* commanded delta of the joint is positive, or below (min +
\* joint_limit_margin) with a negative delta, the tick halts (JOINT_BOUND,
\* zero velocities), also when the joint state reports velocity zero.
C27_NoMotionPastMargin ==
  [][ ( /\ pc = "servo" /\ pc' = "done"
        /\ branch' = "joint" /\ Len(status_trace') = 3
        /\ \E i \in Joints :
             LET delta == scaleJointCommand(snapshot'[1].joint_servo_cmd)[i]
             IN \/ /\ original_joint_state.position[i] > MaxPosition - JointLimitMargin
                   /\ delta > 0
                \/ /\ original_joint_state.position[i] < MinPosition + JointLimitMargin
                   /\ delta < 0 )
      => /\ status' = JOINT_BOUND
         /\ published' # <<>> =>
              \A i \in 1..Len(published'[1].points[1].velocities) :
                published'[1].points[1].velocities[i] = 0 ]_vars


\* ---------------------------------------------------------------------
\* C28: latest_state_mutex is held for copies only: no thread that holds it
\* is updating or querying the kinematic state, computing a Jacobian or an
\* SVD, logging or publishing; this covers the snapshot block of the tick,
\* updateJoints and every handler.
C28_MutexOnlyForCopies ==
  /\ latest_state_mutex = "executor" => Current(executor_at).op \notin LongWork
  /\ latest_state_mutex = "caller" => Current(caller_at).op \notin LongWork


\* ---------------------------------------------------------------------
\* Commands with components that are not finite.  Infinity stands for the
\* double +inf (and -Infinity for -inf): it is not NaN and larger than every
\* other value
Infinity == 2000

NextNonFinite ==
  \/ jointStateCB(JointStateAtRest)
  \/ \E tw \in {MoveX, NaNX} \cup { <<x, 0, 0, 0, 0, 0>> : x \in {Infinity, -Infinity} } : twistStampedCB(TwistMsg(now, tw))
  \/ \E v \in {JogFirst} \cup { [i \in Joints |-> IF i = 1 THEN x ELSE 0] : x \in {NaN, Infinity} } :
       jointCmdCB(JogMsg(now, AllJointNames, v))
  \/ (timer = "none" /\ start)
  \/ runBegin
  \/ runUpdateJoints
  \/ runServo
  \/ runReturn

SpecNonFinite == Init /\ [][NextNonFinite]_vars

\* C29: a twist is accepted by checkValidCommand iff its six components are
\* finite and, for unitless commands, at most 1 in absolute value; a jog is
\* accepted iff all its velocities are finite; a command with +infinity or
\* -infinity is rejected like one with NaN.  (A calculation that got past
\* the check has written the trace of the status of the tick.)
C29_OnlyFiniteAccepted ==
  [][ (pc = "servo" /\ pc' = "done" /\ snapshot' # <<>>) =>
        LET tw == snapshot'[1].twist_stamped_cmd.twist
            jog == snapshot'[1].joint_servo_cmd.velocities
            accepted == Len(status_trace') > 1
        IN /\ (branch' = "cartesian") =>
                (accepted <=>
                   \A d \in 1..6 :
                     /\ ~IsNaN(tw[d]) /\ Abs(tw[d]) # Infinity
                     /\ command_in_type = "unitless" => Abs(tw[d]) <= 1)
           /\ (branch' = "joint") =>
                (accepted <=>
                   \A k \in 1..Len(jog) : ~IsNaN(jog[k]) /\ Abs(jog[k]) # Infinity)
    ]_vars


\* ---------------------------------------------------------------------
\* calculateWorstCaseStopTime().  The joints of the group have the
\* acceleration bounds MinAcceleration and MaxAcceleration or none; times are
\* counted in units of 1/StopTimeDen, the conservative acceleration limit.
\* The loop runs over the velocities of the joint state message; accel_limit
\* is declared before the loop, starts at 0 and is assigned only for a joint
\* of the group that has an acceleration bound.
StopTimeDen ==
  IF Abs(MinAcceleration) < Abs(MaxAcceleration)
  THEN Abs(MinAcceleration) ELSE Abs(MaxAcceleration)

\* fabs(joint_velocity / accel_limit): a division by 0.0 gives inf, 0/0 NaN
StopTimeOf(joint_velocity, accel_limit) ==
  IF accel_limit = 0
  THEN (IF joint_velocity = 0 THEN NaN ELSE Infinity)
  ELSE (Abs(joint_velocity) * StopTimeDen) \div accel_limit

\* std::max(a, b) is (a < b) ? b : a, and every comparison with NaN is false
StdMax(a, b) == IF ~IsNaN(b) /\ a < b THEN b ELSE a

RECURSIVE StopTimeLoop(_, _, _, _, _)
StopTimeLoop(msg, bounded, jt_state_idx, accel_limit, worst_case_stop_time) ==
  IF jt_state_idx > Len(msg.velocity) THEN worst_case_stop_time
  ELSE LET joint_name == msg.name[jt_state_idx]
           limit == IF joint_name \in Joints /\ bounded[joint_name]
                    THEN StopTimeDen ELSE accel_limit
       IN StopTimeLoop(msg, bounded, jt_state_idx + 1, limit,
                       StdMax(worst_case_stop_time,
                              StopTimeOf(msg.velocity[jt_state_idx], limit)))

worstCaseStopTime(msg, bounded) == StopTimeLoop(msg, bounded, 1, 0, 0)

calculateWorstCaseStopTime(msg, bounded) ==
  /\ stop_time_result' =
       << [msg |-> msg, value |-> worstCaseStopTime(msg, bounded),
           bounded |-> bounded] >>
  /\ UNCHANGED << threadVars, path_invalidation_event_send, joint_position_pids, solve_result, jog_result, halt_result, drift_result, scaling_result, status_trace, read_result, tfVars,
                  dimVars, arrived, dimensions_used, snapshot, parameters, now,
                  sharedVars, collision_velocity_scale, calcVars,
                  internal_joint_state, original_joint_state,
                  wait_for_servo_commands, paused, stop_requested, status,
                  last_sent_command, timer, pc, crashed, ret, obsVars >>

\* joint states for the stop time: the joints of the group and one joint
\* that is not in the group, in every order and every subset, each at rest
\* or moving
NextStopTime ==
  \E o \in { o \in UNION { [1..n -> 1..(NumJoints + 1)] : n \in 1..(NumJoints + 1) } :
               \A a, b \in DOMAIN o : a # b => o[a] # o[b] } :
   \E v \in [DOMAIN o -> {0, 2}] :
    \E bounded \in [Joints -> BOOLEAN] :
      calculateWorstCaseStopTime([name |-> o, position |-> [k \in DOMAIN o |-> 0],
                                  velocity |-> v], bounded)

SpecStopTime == Init /\ [][NextStopTime]_vars

\* C30: the worst-case stop time published is the maximum, over the joints
\* of the message that are joints of the group with an acceleration bound, of
\* |velocity| / min(|a_min|, |a_max|); a joint without acceleration bound or
\* outside the group contributes nothing, whatever the order of the joints in
\* the message.
C30_WorstCaseStopTime ==
  stop_time_result # <<>> =>
    LET msg == stop_time_result[1].msg
        bounded == stop_time_result[1].bounded
        counted == { k \in 1..Len(msg.velocity) :
                       msg.name[k] \in Joints /\ bounded[msg.name[k]] }
        times == { Abs(msg.velocity[k]) : k \in counted } \cup {0}
    IN stop_time_result[1].value = CHOOSE t \in times : \A u \in times : u <= t

\* ---------------------------------------------------------------------
\* removeDriftDimensions on its own: the rows of the Jacobian and the
\* elements of delta_x go through the same removals (removeDimension), and
\* the joint increment is the pseudoinverse of what is left times delta_x
applyDriftDimensions(drift, delta_x) ==
  /\ drift_result = <<>>
  /\ drift_result' =
       << [rows |-> KeptRows(drift), drift |-> drift,
           delta_x |-> delta_x,
           delta_theta |->
             PseudoInverseTimes(removeDriftDimensions(drift, delta_x)),
           reduced |-> RemoveDriftFrom(delta_x, 6, drift)] >>
  /\ UNCHANGED << threadVars, path_invalidation_event_send, joint_position_pids, solve_result, jog_result, halt_result, stop_time_result, scaling_result, status_trace,
                  read_result, tfVars, dimVars, arrived, dimensions_used,
                  snapshot, parameters, now, sharedVars,
                  collision_velocity_scale, calcVars, internal_joint_state,
                  original_joint_state, wait_for_servo_commands, paused,
                  stop_requested, status, last_sent_command, timer, pc, crashed,
                  ret, obsVars >>

\* every drift mask, with a delta_x that has one nonzero component or six
\* different ones
NextDrift ==
  \E drift \in [1..6 -> BOOLEAN] :
    \E delta_x \in { [d \in 1..6 |-> IF d = n THEN 1 ELSE 0] : n \in 1..6 }
                     \cup { [d \in 1..6 |-> d] } :
      applyDriftDimensions(drift, delta_x)

SpecDrift == Init /\ [][NextDrift]_vars

\* C31: for every drift mask the Jacobian is left with max(1, 6 - number of
\* drifting dimensions) rows, which are the dimensions that do not drift in
\* their order (row 0 alone when all six drift); the reduced delta_x has the
\* same length and the elements of the kept rows; and a twist whose only
\* nonzero component is a drifting dimension gives an all-zero reduced
\* delta_x and a zero joint increment.
C31_DriftRemoved ==
  drift_result # <<>> =>
    LET r == drift_result[1]
        kept == { d \in 1..6 : ~r.drift[d] }
        n == IF kept = {} THEN 1 ELSE Cardinality(kept)
    IN /\ Len(r.rows) = n
       /\ kept = {} => r.rows = << 1 >>
       /\ kept # {} => /\ { r.rows[k] : k \in 1..n } = kept
                       /\ \A k \in 1..(n - 1) : r.rows[k] < r.rows[k + 1]
       /\ Len(r.reduced) = n
       /\ \A k \in 1..n : r.reduced[k] = r.delta_x[r.rows[k]]
       /\ (\A d \in 1..6 : r.delta_x[d] # 0 => r.drift[d])
            => /\ \A k \in 1..n : r.reduced[k] = 0
               /\ \A c \in Joints : r.delta_theta[c] = 0

\* ---------------------------------------------------------------------
\* C32: in gazebo mode the command of a tick that computes a motion has
\* gazebo_redundant_message_count points, each with the positions,
\* velocities and accelerations of the computed point and with
\* time_from_start of point i (counted from 1) equal to i publish periods;
\* no point is empty or has time_from_start zero.
C32_GazeboRedundantPoints ==
  (pc = "done" /\ parameters.use_gazebo /\ branch \in {"cartesian", "joint"}
   /\ published # <<>>) =>
    LET points == published[1].points
    IN /\ Len(points) = gazebo_redundant_message_count
       /\ \A i \in 1..Len(points) :
            points[i] = [points[1] EXCEPT !.time_from_start = i]

\* ---------------------------------------------------------------------
\* suddenHalt on its own, applied to an outgoing trajectory and then to its
\* own result, original_joint_state_ being the same
applySuddenHalt(traj, original) ==
  /\ halt_result = <<>>
  /\ halt_result' =
       << [traj |-> traj, original |-> original,
           once |-> suddenHalt(traj, original),
           twice |-> suddenHalt(suddenHalt(traj, original), original)] >>
  /\ UNCHANGED << threadVars, path_invalidation_event_send, joint_position_pids, solve_result, jog_result, drift_result, stop_time_result, scaling_result,
                  status_trace, read_result, tfVars, dimVars, arrived,
                  dimensions_used, snapshot, parameters, now, sharedVars,
                  collision_velocity_scale, calcVars, internal_joint_state,
                  original_joint_state, wait_for_servo_commands, paused,
                  stop_requested, status, last_sent_command, timer, pc, crashed,
                  ret, obsVars >>

\* the outgoing trajectories: the empty one, the one composeJointTrajMessage
\* builds from a joint state, and that one with the redundant points
NextHalt ==
  \E position \in [Joints -> -1..1] : \E velocity \in [Joints -> {0, 2}] :
    \E original \in [Joints -> 0..1] :
      \E traj \in LET composed ==
                        composeJointTrajMessage(
                          [name |-> [i \in Joints |-> i], position |-> position,
                           velocity |-> velocity], DefaultTrajectory)
                  IN { DefaultTrajectory, composed,
                       insertRedundantPointsIntoTrajectory(
                         composed, gazebo_redundant_message_count) } :
        applySuddenHalt(traj, [name |-> [i \in Joints |-> i],
                               position |-> original,
                               velocity |-> Zeros(NumJoints)])

SpecHalt == Init /\ [][NextHalt]_vars

\* C33: suddenHalt is idempotent: for an outgoing trajectory, empty or
\* populated, and the same original_joint_state, applying it twice gives
\* the trajectory that applying it once gives.
C33_SuddenHaltIdempotent ==
  halt_result # <<>> => halt_result[1].twice = halt_result[1].once

\* a populated trajectory that the halt changes
C33_Witness ==
  /\ halt_result # <<>>
  /\ halt_result[1].traj.points # <<>>
  /\ halt_result[1].once # halt_result[1].traj

\* ---------------------------------------------------------------------
\* Pausing and unpausing while twists arrive, with a stamp or with the
\* stamp Time(0)
NextPause ==
  \/ jointStateCB(JointStateAtRest)
  \/ \E stamp \in {0, now} : twistStampedCB(TwistMsg(stamp, MoveX))
  \/ \E b \in BOOLEAN : setPaused(b)
  \/ (timer = "none" /\ start)
  \/ runBegin
  \/ runUpdateJoints
  \/ runServo
  \/ runReturn

SpecPause == Init /\ [][NextPause]_vars

\* C34: once wait_for_servo_commands has been cleared it stays cleared: no
\* pause, unpause or command arrival, a command with stamp zero that arrives
\* while paused included, sets it to true again.
C34_WaitStaysCleared ==
  [][ ~wait_for_servo_commands => ~wait_for_servo_commands' ]_vars

\* ---------------------------------------------------------------------
\* C35: at the end of a tick that published a command, prev_joint_velocity
\* is the joint velocities of that command; after the halt command of a
\* no-motion tick, with zero velocities, prev_joint_velocity is all zeros.
C35_PrevVelocityIsPublished ==
  (pc = "done" /\ published # <<>>) =>
    \A i \in Joints :
      prev_joint_velocity[i] = published[1].points[1].velocities[i]

\* ---------------------------------------------------------------------
\* scaleJointCommand on its own.  The loop runs over joint_names and reads
\* velocities[m] for every name that is a joint of the group; operator[] of
\* std::vector does not check the index, so a read at or after
\* velocities.size() yields whatever the memory after the array holds
\* (beyond)
applyScaleJointCommand(cmd, beyond) ==
  /\ jog_result = <<>>
  /\ jog_result' =
       << [cmd |-> cmd,
           result |->
             scaleJointCommand(
               [cmd EXCEPT !.velocities =
                  [m \in 1..Len(cmd.joint_names) |->
                     IF m <= Len(cmd.velocities) THEN cmd.velocities[m] ELSE beyond]]),
           reads |-> { m \in 1..Len(cmd.joint_names) : cmd.joint_names[m] \in Joints }
          ] >>
  /\ UNCHANGED << threadVars, path_invalidation_event_send, joint_position_pids, solve_result, halt_result, drift_result, stop_time_result,
                  scaling_result, status_trace, read_result, tfVars, dimVars,
                  arrived, dimensions_used, snapshot, parameters, now, sharedVars,
                  collision_velocity_scale, calcVars, internal_joint_state,
                  original_joint_state, wait_for_servo_commands, paused,
                  stop_requested, status, last_sent_command, timer, pc, crashed,
                  ret, obsVars >>

\* the jogs the joint branch scales, which are those with a nonzero velocity:
\* they name up to three joints, one of them not in the group, and have up
\* to three velocities; the lists need not have the same length
NextJog ==
  \E joint_names \in UNION { [1..n -> 1..(NumJoints + 1)] : n \in 0..3 } :
    \E velocities \in UNION { [1..n -> {0, 1}] : n \in 0..3 } :
      \E beyond \in {0, 1} :
        /\ isNonZeroJog(JogMsg(now, joint_names, velocities))
        /\ applyScaleJointCommand(JogMsg(now, joint_names, velocities), beyond)

SpecJog == Init /\ [][NextJog]_vars

\* C36: for every joint jog, one with more joint names than velocities
\* included, scaleJointCommand reads only indices of velocities below
\* velocities.size(), and the result has length N with zero for every joint
\* of the group that the command does not name.
C36_JogReadsInBounds ==
  jog_result # <<>> =>
    LET r == jog_result[1]
    IN /\ \A m \in r.reads : m <= Len(r.cmd.velocities)
       /\ DOMAIN r.result = Joints
       /\ \A c \in Joints :
            (\A m \in 1..Len(r.cmd.joint_names) : r.cmd.joint_names[m] # c)
              => r.result[c] = 0

\* ---------------------------------------------------------------------
\* C37: stop is safe after every sequence of start, stop, pause and unpause:
\* called before any successful start, when no timer was ever created, or
\* twice in a row, it sets stop_requested and returns; it never dereferences
\* a timer that does not exist.
C37_StopIsSafe == ~crashed

\* ------------------------------------------------------------------------
\* DecelerateBeforeCollision, the local constraint solver of the hybrid
\* planning local planner
\* ------------------------------------------------------------------------
\* the single-DOF joints of the robot model, in the order of the joint state
SolverJoints == {1, 2}

\* the feedback of a solve call: "collision_ahead" for an invalid path when
\* the event was not sent yet, else the empty string
solveFeedback_EveryCall(path_valid, event_send) ==
  IF ~path_valid THEN "collision_ahead" ELSE ""
solveFeedback(path_valid, event_send) ==
  IF ~path_valid /\ ~event_send THEN "collision_ahead" ELSE ""

\* initialize(): the flag is cleared and every active joint of the group
\* group_name gets a PID controller.  The local planner initializes the
\* plugin once, when it loads it
initialize(group) ==
  /\ path_invalidation_event_send = <<>>
  /\ path_invalidation_event_send' = << FALSE >>
  /\ joint_position_pids' = group
  /\ UNCHANGED << threadVars, solve_result, jog_result, halt_result,
                  drift_result, stop_time_result, scaling_result, status_trace,
                  read_result, tfVars, dimVars, arrived, dimensions_used,
                  snapshot, parameters, now, sharedVars,
                  collision_velocity_scale, calcVars, internal_joint_state,
                  original_joint_state, wait_for_servo_commands, paused,
                  stop_requested, status, last_sent_command, timer, pc, crashed,
                  ret, obsVars >>

\* solve(): path_valid is what isPathValid reports for local_trajectory,
\* joint_names and waypoint are the joints of the trajectory's group and
\* their positions in its way point 0, current is the position list of the
\* current state message, and command is what the PID controllers compute.
\* for_joint lists the joints the positions of the goal point were computed
\* for, in the order they were pushed
solve(path_valid, joint_names, waypoint, current, command) ==
  /\ path_invalidation_event_send # <<>>
  /\ path_invalidation_event_send' =
       IF path_valid
       THEN (IF path_invalidation_event_send[1] THEN << FALSE >>
             ELSE path_invalidation_event_send)
       ELSE (IF ~path_invalidation_event_send[1] THEN << TRUE >>
             ELSE path_invalidation_event_send)
  /\ LET target_state ==
           IF path_valid THEN waypoint
           ELSE [i \in 1..Len(joint_names) |-> current[joint_names[i]]]
         with_pid == SelectSeq([i \in 1..Len(target_state) |-> i],
                               LAMBDA i : joint_names[i] \in joint_position_pids)
         command_goal_point ==
           [positions |-> [k \in 1..Len(with_pid) |-> current[with_pid[k]] + command],
            time_from_start |-> 1]
     IN solve_result' =
          << [current |-> current,
              calls |-> IF solve_result = <<>> THEN 1 ELSE 1 - solve_result[1].calls,
              path_valid |-> path_valid,
              target_state |-> target_state,
              feedback |-> solveFeedback(path_valid, path_invalidation_event_send[1]),
              for_joint |-> [k \in 1..Len(with_pid) |-> joint_names[with_pid[k]]],
              local_solution |-> [joint_names |-> joint_names,
                                  points |-> << command_goal_point >>]] >>
  /\ UNCHANGED << threadVars, joint_position_pids, jog_result, halt_result,
                  drift_result, stop_time_result, scaling_result, status_trace,
                  read_result, tfVars, dimVars, arrived, dimensions_used,
                  snapshot, parameters, now, sharedVars,
                  collision_velocity_scale, calcVars, internal_joint_state,
                  original_joint_state, wait_for_servo_commands, paused,
                  stop_requested, status, last_sent_command, timer, pc, crashed,
                  ret, obsVars >>

NextSolver ==
  \/ \E group \in (SUBSET SolverJoints) \ {{}} : initialize(group)
  \/ \E path_valid \in BOOLEAN : \E joint_names \in { <<1>>, <<2>>, <<1, 2>> } :
       \E waypoint \in [1..Len(joint_names) -> {0, 1}] :
         \E current \in [SolverJoints -> {0, 1}] : \E command \in {0, 1} :
           solve(path_valid, joint_names, waypoint, current, command)

SpecSolver == Init /\ [][NextSolver]_vars

\* C38: over a sequence of solve calls the feedback "collision_ahead" is
\* returned on the first call of every maximal run of calls with an invalid
\* path and on no other call: not on the later calls of the run, again for a
\* new run after a call with a valid path, never on a call with a valid path;
\* and on an invalid path the target is the current state.
C38_CollisionAheadOncePerRun ==
  [][ ( /\ solve_result' # <<>>
        /\ solve_result = <<>> \/ solve_result'[1].calls # solve_result[1].calls )
      => LET call == solve_result'[1]
             first_of_run == solve_result = <<>> \/ solve_result[1].path_valid
         IN /\ (call.feedback = "collision_ahead")
                 <=> (~call.path_valid /\ first_of_run)
            /\ ~call.path_valid =>
                 \A i \in 1..Len(call.local_solution.joint_names) :
                   call.target_state[i]
                     = call.current[call.local_solution.joint_names[i]]
    ]_vars

\* the second call of a run of invalid paths has gone by without feedback,
\* after a run that followed a valid path
C38_Witness ==
  /\ solve_result # <<>>
  /\ ~solve_result[1].path_valid
  /\ solve_result[1].feedback = ""
  /\ path_invalidation_event_send = << TRUE >>

\* C39: the solution solve returns has one point, and the positions of the
\* point have the length and the order of local_solution.joint_names, also
\* when the trajectory has joints that are not in the active group and have
\* no PID controller.
C39_SolutionWellFormed ==
  solve_result # <<>> =>
    LET local_solution == solve_result[1].local_solution
    IN /\ Len(local_solution.points) = 1
       /\ Len(local_solution.points[1].positions) = Len(local_solution.joint_names)
       /\ solve_result[1].for_joint = local_solution.joint_names

====
